---- MODULE Spec2Model ----
(***************************************************************************)
(* BudgetWise server (src/unnamed/part_001, second revision, lines         *)
(* 531-1727) over the SQLite schema of src/unnamed/part_002: the cursor    *)
(* paginated transaction feed GET /api/transactions and the writes that    *)
(* feed it.                                                                *)
(*                                                                         *)
(* Conventions.  Text values that the code only compares are modelled by   *)
(* their rank under string comparison: an ISO-8601 timestamp is the        *)
(* integer ToISOString gives it.  Time is counted in years.  A query       *)
(* parameter that is absent and one that is the empty string take the same *)
(* branches of the handler; both are "".  JS null / SQL NULL in an integer *)
(* slot is Null.                                                           *)
(***************************************************************************)
EXTENDS Integers, Sequences, FiniteSets, TLC

VARIABLES
    categories,   \* table UserCategory: set of rows
    nextCatId,    \* sqlite_sequence of UserCategory (AUTOINCREMENT)
    income,       \* table Income: rows in rowid order, id = position
    expenditure,  \* table Expenditure: rows in rowid order, id = position
    now,          \* the server clock read by new Date()
    req,          \* the last GET /api/transactions request
    resp,         \* its response
    returned,     \* items of the pages fetched so far by following nextCursor
    fromStart,    \* the walk began with a request that carried no cursor
    stable,       \* no write has happened since the first page of this walk
    fresh,        \* no write has happened since resp was sent
    recurring,    \* table RecurringExpenditure: set of rows
    nextRecId,    \* sqlite_sequence of RecurringExpenditure
    txn,          \* the open transaction of the one database connection
    procs,        \* the requests being handled, by slot, each at its await
    started,      \* the number of requests accepted so far
    prevImport,   \* the last import answered, while no other write followed
    dash          \* the last response of GET /api/budget/dashboard

\* the state of the template and dashboard routes
templateVars == <<recurring, nextRecId, txn, procs, started, prevImport, dash>>

vars == <<categories, nextCatId, income, expenditure, now,
          req, resp, returned, fromStart, stable, fresh, templateVars>>

(* ------------------------------ bounds -------------------------------- *)

MaxRows == 3        \* rows inserted into Income and Expenditure together
MaxCats == 1        \* categories created
SeedRows == 52      \* expenses in the pre-populated store of SpecRequests
MaxRequests == 3    \* requests made to the template and category routes
SeedTemplates == 49 \* categories and recurring templates user 1 starts with

(* -------------------------- program constants ------------------------- *)

DefaultLimit == 20
MaxLimit == 50
MinLimit == 1
MaxCategoryNameLength == 40
MaxCategories == 50
MaxRecurring == 50
MaxDescriptionLength == 255
MaxImportCategories == 100
MaxImportRecurring == 200
MaxIsoYear == 9999  \* Date.prototype.toISOString: four digit years up to here

Null == 0 - 1
Users == {1, 2}
Years == {1, 2}     \* the years the server clock shows
BUDGET_TYPES == {"Necessities", "Leisure", "Savings"}

Min(a, b) == IF a < b THEN a ELSE b
Max(a, b) == IF a > b THEN a ELSE b

(* ------------------------- JS string functions ------------------------ *)

\* String.prototype.trim on the strings the requests carry
Trim(s) ==
    CASE s = " Expense " -> "Expense"
      [] s = " food" -> "food"
      [] s = " rent" -> "rent"
      [] s = " Gym " -> "Gym"
      [] s = "   " -> ""
      [] OTHER -> s

\* String.prototype.toLowerCase on the strings the requests carry
ToLowerCase(s) ==
    CASE s = "Income" -> "income"
      [] s = "Expense" -> "expense"
      [] s = "OLDEST" -> "oldest"
      [] s = "Uncategorized" -> "uncategorized"
      [] s = "Food" -> "food"
      [] s = "Rent" -> "rent"
      [] s = "Gym" -> "gym"
      [] s = "École" -> "école"
      [] OTHER -> s

\* LOWER() and COLLATE NOCASE of SQLite fold the 26 ASCII letters only
SqlLower(s) ==
    CASE s = "Food" -> "food"
      [] s = "Rent" -> "rent"
      [] s = "Gym" -> "gym"
      [] OTHER -> s

\* a name of 41 characters and a description of 256
LongName == "a category name of forty-one characters.."
LongDescription == "a description of 256 characters"

\* the length of a (trimmed) category name
StrLen(s) ==
    CASE s = "" -> 0
      [] s = "Food" -> 4
      [] s = "food" -> 4
      [] s = "Rent" -> 4
      [] s = "rent" -> 4
      [] s = "Gym" -> 3
      [] s = "École" -> 5
      [] s = "école" -> 5
      [] s = LongDescription -> MaxDescriptionLength + 1
      [] OTHER -> MaxCategoryNameLength + 1

DecimalStrings ==
    ("-5" :> (0 - 5)) @@ ("0" :> 0) @@ ("1" :> 1) @@ ("2" :> 2) @@ ("3" :> 3)
    @@ ("20" :> 20) @@ ("50" :> 50) @@ ("51" :> 51) @@ ("1000" :> 1000)

\* Number.parseInt(s, 10): NaN for a string with no leading integer
ParseInt(s) ==
    IF s \in DOMAIN DecimalStrings
    THEN [nan |-> FALSE, n |-> DecimalStrings[s]]
    ELSE [nan |-> TRUE, n |-> 0]

\* new Date(y).toISOString() as the rank of the string it returns: a year
\* past 9999 is written "+0YYYYY-...", and "+" sorts before every digit
ToISOString(y) == IF y > MaxIsoYear THEN y - 100 * MaxIsoYear ELSE y

(* ------------------------------ parsers ------------------------------- *)

\* parseLimit with the test parsed < 0: a limit of 0 is passed on
parseLimitZero(rawLimit, defaultValue, maxValue) ==
    LET parsed == ParseInt(rawLimit)
    IN  IF parsed.nan \/ parsed.n < 0
        THEN defaultValue
        ELSE Min(parsed.n, maxValue)

parseLimit(rawLimit, defaultValue, maxValue) ==
    LET parsed == ParseInt(rawLimit)
    IN  IF parsed.nan \/ parsed.n <= 0
        THEN defaultValue
        ELSE Min(parsed.n, maxValue)

normalizeSort(value) ==
    IF value = "" THEN "newest"
    ELSE IF ToLowerCase(value) = "oldest" THEN "oldest" ELSE "newest"

\* normalizeType without toLowerCase
normalizeTypeCaseSensitive(value) ==
    IF value = "income" THEN "Income"
    ELSE IF value = "expense" THEN "Expense"
    ELSE ""

\* "" stands for the null the code returns
normalizeType(value) ==
    IF value = "" THEN ""
    ELSE LET normalized == ToLowerCase(value)
         IN  IF normalized = "income" THEN "Income"
             ELSE IF normalized = "expense" THEN "Expense"
             ELSE ""

(* ---------------------------- cursor codec ---------------------------- *)

\* A token is [kind |-> "absent"] (no cursor parameter, or nextCursor null),
\* [kind |-> "garbage"] (base64 text that is no JSON), or
\* [kind |-> "b64", json |-> t], the base64 of the JSON text t.  A decoded
\* JSON object is a record holding the fields it has; JSON null is JsonNull
\* and a JSON number n is [number |-> n].  The JSON text of an object holds,
\* for each key, the literal written for its value: a quoted string
\* [string |-> s] or a bare number [number |-> n].
NoToken == [kind |-> "absent"]
JsonNull == [null |-> TRUE]

IsObject(v) == "number" \notin DOMAIN v /\ "null" \notin DOMAIN v

\* the keys of a cursor whose values are strings (sort, and the TEXT column
\* sort_date); typeOrder and id are numbers
StringKeys == {"sort", "date"}

\* the literal JSON.stringify writes for the value of key k
JsonLiteral(k, value) ==
    IF k \in StringKeys THEN [string |-> value] ELSE [number |-> value]

\* the value JSON.parse reads from a literal
JsonValue(literal) ==
    IF "string" \in DOMAIN literal THEN literal.string ELSE literal.number

\* JSON.stringify(v)
JsonStringify(v) ==
    IF IsObject(v) THEN [k \in DOMAIN v |-> JsonLiteral(k, v[k])] ELSE v

\* JSON.parse(t)
JsonParse(t) ==
    IF IsObject(t) THEN [k \in DOMAIN t |-> JsonValue(t[k])] ELSE t

\* encodeCursor that leaves out a typeOrder of 0, as a writer that skips
\* falsy values would
encodeCursorSkipsZero(cursor) ==
    [kind |-> "b64",
     json |-> JsonStringify([k \in {x \in DOMAIN cursor : x # "typeOrder" \/ cursor[x] # 0}
                                |-> cursor[k]])]

\* Buffer.from(JSON.stringify(cursor)).toString('base64')
encodeCursor(cursor) == [kind |-> "b64", json |-> JsonStringify(cursor)]

\* JSON.parse(Buffer.from(cursor, 'base64').toString('utf-8')); JsonNull is
\* also what the catch branch returns
decodeCursor(cursor) ==
    IF cursor.kind = "b64" THEN JsonParse(cursor.json) ELSE JsonNull

\* JS truthiness of a decoded JSON value
Truthy(v) ==
    /\ v # JsonNull
    /\ ("number" \in DOMAIN v => v.number # 0)

\* v.sort, "undefined" when v has no such property
SortOf(v) == IF "sort" \in DOMAIN v THEN v.sort ELSE "undefined"

(* ------------------------------- tables ------------------------------- *)

NullText == "<null>"
NoCategoryRow == [id |-> Null, user_id |-> Null, name |-> NullText, budget_type |-> NullText]

\* LEFT JOIN UserCategory uc ON uc.id = e.user_category_id
JoinCategory(cats, id) ==
    IF \E c \in cats : c.id = id
    THEN CHOOSE c \in cats : c.id = id
    ELSE NoCategoryRow

\* IncomeSelect without WHERE user_id = ?
IncomeSelectAllUsers(inc, userId) ==
    [i \in 1..Len(inc) |->
        [sort_date |-> inc[i].date, sort_id |-> inc[i].id, type_order |-> 0,
         type |-> "Income", amount |-> inc[i].amount,
         user_category_id |-> Null, category_name |-> NullText,
         category_budget_type |-> NullText]]

\* the two SELECTs of the UNION ALL, each scoped by WHERE user_id = ?
IncomeSelect(inc, userId) ==
    LET mine == SelectSeq(inc, LAMBDA r : r.user_id = userId)
    IN  [i \in 1..Len(mine) |->
            [sort_date |-> mine[i].date, sort_id |-> mine[i].id, type_order |-> 0,
             type |-> "Income", amount |-> mine[i].amount,
             user_category_id |-> Null, category_name |-> NullText,
             category_budget_type |-> NullText]]

ExpenditureSelect(exp, cats, userId) ==
    LET mine == SelectSeq(exp, LAMBDA r : r.user_id = userId)
    IN  [i \in 1..Len(mine) |->
            [sort_date |-> mine[i].date, sort_id |-> mine[i].id, type_order |-> 1,
             type |-> "Expense", amount |-> mine[i].amount,
             user_category_id |-> mine[i].user_category_id,
             category_name |-> JoinCategory(cats, mine[i].user_category_id).name,
             category_budget_type |->
                 JoinCategory(cats, mine[i].user_category_id).budget_type]]

UnionAll(inc, exp, cats, userId) ==
    IncomeSelect(inc, userId) \o ExpenditureSelect(exp, cats, userId)

(* -------------------------- fetchTransactions ------------------------- *)

NoFilter == [kind |-> "none", value |-> Null]

clampLimit(limit) == Min(Max(limit, MinLimit), MaxLimit)

\* the shape test a truthy cursor must pass
cursorWellFormed(cursor, normalizedSort) ==
    /\ IsObject(cursor)
    /\ "date" \in DOMAIN cursor
    /\ "typeOrder" \in DOMAIN cursor
    /\ "id" \in DOMAIN cursor
    /\ SortOf(cursor) = normalizedSort

\* cursorCondition with sort_id <= ? and sort_id >= ?: the boundary row again
cursorConditionInclusive(row, cursor, normalizedSort) ==
    IF normalizedSort = "newest"
    THEN \/ row.sort_date < cursor.date
         \/ /\ row.sort_date = cursor.date
            /\ \/ row.type_order > cursor.typeOrder
               \/ (row.type_order = cursor.typeOrder /\ row.sort_id <= cursor.id)
    ELSE \/ row.sort_date > cursor.date
         \/ /\ row.sort_date = cursor.date
            /\ \/ row.type_order > cursor.typeOrder
               \/ (row.type_order = cursor.typeOrder /\ row.sort_id >= cursor.id)

\* cursorCondition with the newest-first predicate in both sorts
cursorConditionOneDirection(row, cursor, normalizedSort) ==
    \/ row.sort_date < cursor.date
    \/ /\ row.sort_date = cursor.date
       /\ \/ row.type_order > cursor.typeOrder
          \/ (row.type_order = cursor.typeOrder /\ row.sort_id < cursor.id)

\* cursorCondition with type_order < ? in the oldest-first predicate, as if
\* every comparison flipped with the direction
cursorConditionTypeFlipped(row, cursor, normalizedSort) ==
    IF normalizedSort = "newest"
    THEN \/ row.sort_date < cursor.date
         \/ /\ row.sort_date = cursor.date
            /\ \/ row.type_order > cursor.typeOrder
               \/ (row.type_order = cursor.typeOrder /\ row.sort_id < cursor.id)
    ELSE \/ row.sort_date > cursor.date
         \/ /\ row.sort_date = cursor.date
            /\ \/ row.type_order < cursor.typeOrder
               \/ (row.type_order = cursor.typeOrder /\ row.sort_id > cursor.id)

\* the SQL cursorCondition, on one row of the union
cursorCondition(row, cursor, normalizedSort) ==
    IF normalizedSort = "newest"
    THEN \/ row.sort_date < cursor.date
         \/ /\ row.sort_date = cursor.date
            /\ \/ row.type_order > cursor.typeOrder
               \/ (row.type_order = cursor.typeOrder /\ row.sort_id < cursor.id)
    ELSE \/ row.sort_date > cursor.date
         \/ /\ row.sort_date = cursor.date
            /\ \/ row.type_order > cursor.typeOrder
               \/ (row.type_order = cursor.typeOrder /\ row.sort_id > cursor.id)

\* the filter conditions, joined by AND
filterConditions(row, typeFilter, categoryFilter, dateFrom, dateTo) ==
    /\ typeFilter # "" => row.type = typeFilter
    /\ categoryFilter.kind = "uncategorized" =>
           (row.type = "Expense" /\ row.user_category_id = Null)
    /\ categoryFilter.kind = "id" =>
           (row.type = "Expense" /\ row.user_category_id = categoryFilter.value)
    /\ dateFrom # Null => row.sort_date >= dateFrom
    /\ dateTo # Null => row.sort_date <= dateTo

\* orderClause with sort_id ASC in the newest-first order
orderClauseIdAscending(a, b, normalizedSort) ==
    IF normalizedSort = "oldest"
    THEN \/ a.sort_date < b.sort_date
         \/ /\ a.sort_date = b.sort_date
            /\ \/ a.type_order < b.type_order
               \/ (a.type_order = b.type_order /\ a.sort_id < b.sort_id)
    ELSE \/ a.sort_date > b.sort_date
         \/ /\ a.sort_date = b.sort_date
            /\ \/ a.type_order < b.type_order
               \/ (a.type_order = b.type_order /\ a.sort_id < b.sort_id)

\* orderClause with type_order DESC in the oldest-first order
orderClauseTypeDescending(a, b, normalizedSort) ==
    IF normalizedSort = "oldest"
    THEN \/ a.sort_date < b.sort_date
         \/ /\ a.sort_date = b.sort_date
            /\ \/ a.type_order > b.type_order
               \/ (a.type_order = b.type_order /\ a.sort_id < b.sort_id)
    ELSE \/ a.sort_date > b.sort_date
         \/ /\ a.sort_date = b.sort_date
            /\ \/ a.type_order < b.type_order
               \/ (a.type_order = b.type_order /\ a.sort_id > b.sort_id)

\* ORDER BY sort_date, type_order ASC, sort_id: TRUE when a comes before b
orderClause(a, b, normalizedSort) ==
    IF normalizedSort = "oldest"
    THEN \/ a.sort_date < b.sort_date
         \/ /\ a.sort_date = b.sort_date
            /\ \/ a.type_order < b.type_order
               \/ (a.type_order = b.type_order /\ a.sort_id < b.sort_id)
    ELSE \/ a.sort_date > b.sort_date
         \/ /\ a.sort_date = b.sort_date
            /\ \/ a.type_order < b.type_order
               \/ (a.type_order = b.type_order /\ a.sort_id > b.sort_id)

\* all(baseQuery + orderClause + LIMIT ?)
queryRows(inc, exp, cats, userId, normalizedSort, cursor, typeFilter, categoryFilter, dateFrom, dateTo, fetchLimit) ==
    LET selected ==
            SelectSeq(UnionAll(inc, exp, cats, userId),
                LAMBDA row :
                    /\ filterConditions(row, typeFilter, categoryFilter, dateFrom, dateTo)
                    /\ Truthy(cursor) => cursorCondition(row, cursor, normalizedSort))
        ordered == SortSeq(selected, LAMBDA a, b : orderClause(a, b, normalizedSort))
    IN  SubSeq(ordered, 1, Min(Len(ordered), fetchLimit))

\* the cursor issued when the lookahead row came back
lookaheadCursor(rows, clampedLimit, normalizedSort) ==
    IF Len(rows) > clampedLimit
    THEN encodeCursor([sort |-> normalizedSort,
                       date |-> rows[clampedLimit + 1].sort_date,
                       typeOrder |-> rows[clampedLimit + 1].type_order,
                       id |-> rows[clampedLimit + 1].sort_id])
    ELSE NoToken

\* pageRows without the slice: the lookahead row is sent too
pageRowsAll(rows, clampedLimit) == rows

pageRows(rows, clampedLimit) ==
    IF Len(rows) > clampedLimit THEN SubSeq(rows, 1, clampedLimit) ELSE rows

\* items.map(row => ({...}))
toItems(rows) ==
    [i \in 1..Len(rows) |->
        [id |-> rows[i].sort_id, type |-> rows[i].type, amount |-> rows[i].amount,
         date |-> rows[i].sort_date, category_id |-> rows[i].user_category_id,
         category_name |-> rows[i].category_name,
         category_budget_type |-> rows[i].category_budget_type]]

\* res.status(status).json({ message })
Reply(status, message) ==
    [status |-> status, message |-> message, items |-> <<>>, nextCursor |-> NoToken,
     queried |-> FALSE, pageSize |-> 0]

\* the error thrown without its statusCode: the catch answers 500
invalidCursorErrorNoStatus == Reply(500, "Invalid cursor.")

\* the error thrown for a malformed cursor, as the handler's catch answers it
invalidCursorError == Reply(400, "Invalid cursor.")

\* the outcome of fetchTransactions: a thrown error with statusCode 400, or
\* the page; queried records that the SELECT was sent to the store
fetchTransactions(inc, exp, cats, userId, limit, sort, cursor, typeFilter, categoryFilter, dateFrom, dateTo) ==
    LET normalizedSort == normalizeSort(sort)
        clampedLimit == clampLimit(limit)
        fetchLimit == clampedLimit + 1
        rows == queryRows(inc, exp, cats, userId, normalizedSort, cursor, typeFilter,
                          categoryFilter, dateFrom, dateTo, fetchLimit)
    IN  IF Truthy(cursor) /\ ~cursorWellFormed(cursor, normalizedSort)
        THEN invalidCursorError
        ELSE [status |-> 200, message |-> "",
              items |-> toItems(pageRows(rows, clampedLimit)),
              nextCursor |-> lookaheadCursor(rows, clampedLimit, normalizedSort),
              queried |-> TRUE, pageSize |-> clampedLimit]

(* ---------------------- GET /api/transactions ------------------------- *)

DateStrings ==
    ("0001-06-01" :> 1) @@ ("0002-06-01" :> 2) @@ ("+010000-01-01" :> 10000)

\* new Date(s): an invalid date (getTime() is NaN) for unparseable text
NewDate(s) ==
    IF s \in DOMAIN DateStrings
    THEN [nan |-> FALSE, year |-> DateStrings[s]]
    ELSE [nan |-> TRUE, year |-> 0]

\* the categoryFilter the handler builds; kind "invalid" is its 400 branch
parseCategoryParam(categoryParam) ==
    IF categoryParam = "" THEN NoFilter
    ELSE IF ToLowerCase(categoryParam) = "uncategorized"
    THEN [kind |-> "uncategorized", value |-> Null]
    ELSE LET parsedCategory == ParseInt(categoryParam)
         IN  IF parsedCategory.nan \/ parsedCategory.n <= 0
             THEN [kind |-> "invalid", value |-> Null]
             ELSE [kind |-> "id", value |-> parsedCategory.n]

\* dateFrom / dateTo: Null when the parameter is absent
parseDateParam(param) ==
    IF param = "" THEN Null ELSE ToISOString(NewDate(param).year)

\* dateFrom && dateTo && dateFrom > dateTo
rangeInverted(dateFrom, dateTo) ==
    dateFrom # Null /\ dateTo # Null /\ dateFrom > dateTo

\* the cursor test of the handler, before any other parameter is read
cursorRejected(decodedCursor, sort) ==
    ~Truthy(decodedCursor) \/ SortOf(decodedCursor) # sort

\* the response of the handler to query q on the given tables
getTransactions(inc, exp, cats, q) ==
    LET limit == parseLimit(q.limit, DefaultLimit, MaxLimit)
        sort == normalizeSort(q.sort)
        typeParam == Trim(q.type)
        categoryParam == Trim(q.category_id)
        decodedCursor ==
            IF q.cursor.kind # "absent" THEN decodeCursor(q.cursor) ELSE JsonNull
        typeFilter == normalizeType(typeParam)
        categoryFilter == parseCategoryParam(categoryParam)
        dateFrom == parseDateParam(q.from)
        dateTo == parseDateParam(q.to)
    IN  IF q.cursor.kind # "absent" /\ cursorRejected(decodedCursor, sort)
        THEN Reply(400, "Invalid cursor.")
        ELSE IF typeParam # "" /\ typeFilter = ""
        THEN Reply(400, "Invalid type parameter.")
        ELSE IF categoryFilter.kind = "invalid"
        THEN Reply(400, "Invalid category identifier.")
        ELSE IF typeFilter = "Income" /\ categoryFilter.kind # "none"
        THEN Reply(400, "Category filter only applies to expenses.")
        ELSE IF q.from # "" /\ NewDate(q.from).nan
        THEN Reply(400, "Invalid from date.")
        ELSE IF q.to # "" /\ NewDate(q.to).nan
        THEN Reply(400, "Invalid to date.")
        ELSE IF rangeInverted(dateFrom, dateTo)
        THEN Reply(400, "from must be earlier than to.")
        ELSE fetchTransactions(inc, exp, cats, q.userId, limit, sort, decodedCursor,
                               typeFilter, categoryFilter, dateFrom, dateTo)

(* ------------------------------ requests ------------------------------ *)

Query(u, l, s, c, t, k, f, e) ==
    [userId |-> u, limit |-> l, sort |-> s, cursor |-> c, type |-> t,
     category_id |-> k, from |-> f, to |-> e]

\* forged cursor tokens: undecodable text, JSON that is no object, objects
\* with a field missing, and well-formed cursors for either sort
ForgedObjects ==
    [sort : {"newest", "oldest"}, date : {1}, typeOrder : {0, 1}, id : {1, 2}]
    \cup [sort : {"newest", "oldest"}, typeOrder : {1}, id : {1}]
    \cup [sort : {"newest"}, date : {1}, id : {1}]
    \cup [sort : {"oldest"}, date : {1}, typeOrder : {1}]
    \cup [date : {1}, typeOrder : {1}, id : {1}]

ForgedTokens ==
    {[kind |-> "garbage"], encodeCursor(JsonNull), encodeCursor([number |-> 5])}
    \cup {encodeCursor(o) : o \in ForgedObjects}

\* the walks of the feed: first pages without a cursor
FeedFilters ==
    {<<"", "", "">>, <<"Income", "", "">>, <<"", "1", "">>, <<"", "", "0002-06-01">>}

FeedQueries ==
    {Query(u, l, s, NoToken, f[1], f[2], f[3], "") :
        u \in Users, l \in {"1", "2"}, s \in {"", "OLDEST"}, f \in FeedFilters}

\* requests with every parameter drawn from valid and invalid values
AllQueries ==
    {Query(1, l, s, c, t, k, f, e) :
        l \in {"", "-5", "0", "2", "1000"}, s \in {"", "OLDEST"},
        c \in {NoToken} \cup ForgedTokens,
        t \in {"", "Income", " Expense ", "salary"},
        k \in {"", "1", "Uncategorized", "0"},
        f \in {"", "soon", "0002-06-01", "+010000-01-01"},
        e \in {"", "later", "0001-06-01", "0002-06-01", "+010000-01-01"}}

(* ------------------------------- writes ------------------------------- *)

AmountInputs == {0, 1000}     \* Number(amount), in thousandths
NameInputs == {"   ", " food"}
BudgetInputs == {"Necessities", "Luxury"}
CategoryIdInputs == {"", "1", "0"}

RowCount == Len(income) + Len(expenditure)

\* POST /api/categories
PostCategory(u, name, budgetType) ==
    LET trimmedName == Trim(name)
        existing == \E c \in categories :
                        c.user_id = u /\ SqlLower(c.name) = SqlLower(trimmedName)
        existingCount == Cardinality({c \in categories : c.user_id = u})
        status ==
            IF trimmedName = "" THEN 400
            ELSE IF StrLen(trimmedName) < 1 \/ StrLen(trimmedName) > MaxCategoryNameLength
            THEN 400
            ELSE IF budgetType \notin BUDGET_TYPES THEN 400
            ELSE IF existing THEN 409
            ELSE IF existingCount >= MaxCategories THEN 400
            ELSE 201
    IN  /\ Cardinality(categories) < MaxCats
        /\ IF status = 201
           THEN /\ categories' = categories \cup
                       {[id |-> nextCatId, user_id |-> u, name |-> trimmedName,
                         budget_type |-> budgetType]}
                /\ nextCatId' = nextCatId + 1
                /\ stable' = FALSE
                /\ fresh' = FALSE
           ELSE UNCHANGED <<categories, nextCatId, stable, fresh>>
        /\ UNCHANGED <<income, expenditure, now, req, resp, returned, fromStart,
                       templateVars>>

\* POST /api/income
PostIncome(u, amount) ==
    /\ RowCount < MaxRows
    /\ IF amount <= 0
       THEN UNCHANGED <<income, stable, fresh>>
       ELSE /\ income' = Append(income,
                    [id |-> Len(income) + 1, user_id |-> u, amount |-> amount,
                     date |-> ToISOString(now)])
            /\ stable' = FALSE
            /\ fresh' = FALSE
    /\ UNCHANGED <<categories, nextCatId, expenditure, now, req, resp, returned,
                   fromStart, templateVars>>

\* POST /api/expense; the INSERT of a NULL user_category_id is refused by the
\* NOT NULL column of the schema and answered 500
PostExpense(u, amount, userCategoryId) ==
    LET parsedId == ParseInt(userCategoryId)
        given == userCategoryId # ""
        existingCategory == \E c \in categories : c.id = parsedId.n /\ c.user_id = u
        status ==
            IF amount <= 0 THEN 400
            ELSE IF given /\ (parsedId.nan \/ parsedId.n <= 0) THEN 400
            ELSE IF given /\ ~existingCategory THEN 400
            ELSE IF ~given THEN 500
            ELSE 201
    IN  /\ RowCount < MaxRows
        /\ IF status = 201
           THEN /\ expenditure' = Append(expenditure,
                        [id |-> Len(expenditure) + 1, user_id |-> u,
                         user_category_id |-> parsedId.n, amount |-> amount,
                         date |-> ToISOString(now)])
                /\ stable' = FALSE
                /\ fresh' = FALSE
           ELSE UNCHANGED <<expenditure, stable, fresh>>
        /\ UNCHANGED <<categories, nextCatId, income, now, req, resp, returned,
                       fromStart, templateVars>>

\* the wall clock moves on, or is set back
SetClock ==
    /\ \E t \in Years : t # now /\ now' = t
    /\ UNCHANGED <<categories, nextCatId, income, expenditure, req, resp,
                   returned, fromStart, stable, fresh, templateVars>>

(* -------------------------------- reads ------------------------------- *)

\* one GET /api/transactions with query q, starting a walk of the feed
GetTransactions(q) ==
    LET r == getTransactions(income, expenditure, categories, q)
    IN  /\ req' = q
        /\ resp' = r
        /\ returned' = r.items
        /\ fromStart' = (q.cursor = NoToken)
        /\ stable' = TRUE
        /\ fresh' = TRUE
        /\ UNCHANGED <<categories, nextCatId, income, expenditure, now, templateVars>>

\* the client sends the same query again with the nextCursor it was given
FollowCursor ==
    /\ resp.status = 200
    /\ resp.nextCursor # NoToken
    /\ LET q == [req EXCEPT !.cursor = resp.nextCursor]
           r == getTransactions(income, expenditure, categories, q)
       IN  /\ req' = q
           /\ resp' = r
           /\ returned' = returned \o r.items
    /\ fresh' = TRUE
    /\ UNCHANGED <<categories, nextCatId, income, expenditure, now, fromStart,
                   stable, templateVars>>

(* --------------------------- specifications --------------------------- *)

NoQuery == Query(1, "", "", NoToken, "", "", "", "")

\* no transaction is open on the connection
NoTxn == [open |-> FALSE]
NoImport == [userId |-> Null, doc |-> Null, status |-> 0]
NoDashboard == [status |-> 0]

\* no recurring template is stored and no template or dashboard request has
\* been made
NoTemplates ==
    /\ recurring = {}
    /\ nextRecId = 1
    /\ txn = NoTxn
    /\ procs = <<>>
    /\ started = 0
    /\ prevImport = NoImport
    /\ dash = NoDashboard

\* No request has been answered yet.  The answer to a request depends on the
\* tables and the query alone, and a first page starts a new walk whatever
\* the previous one was: every state a first page leads to is reached from a
\* state with this property, so first pages are taken from these states only.
Idle == resp.status = 0

Init ==
    /\ categories = {}
    /\ nextCatId = 1
    /\ income = <<>>
    /\ expenditure = <<>>
    /\ now = 1
    /\ req = NoQuery
    /\ resp = Reply(0, "")
    /\ returned = <<>>
    /\ fromStart = FALSE
    /\ stable = TRUE
    /\ fresh = TRUE
    /\ NoTemplates

Next ==
    \/ \E u \in Users, name \in NameInputs, b \in BudgetInputs : PostCategory(u, name, b)
    \/ \E u \in Users, a \in AmountInputs : PostIncome(u, a)
    \/ \E u \in Users, a \in AmountInputs, c \in CategoryIdInputs : PostExpense(u, a, c)
    \/ SetClock
    \/ (Idle /\ \E q \in FeedQueries : GetTransactions(q))
    \/ FollowCursor

Spec == Init /\ [][Next]_vars

\* a database file left by earlier runs: one category, SeedRows expenses over
\* two years and two incomes of user 1, one income of user 2
SeedCategories ==
    {[id |-> 1, user_id |-> 1, name |-> "Food", budget_type |-> "Necessities"]}

SeedExpenditure ==
    [i \in 1..SeedRows |->
        [id |-> i, user_id |-> 1, user_category_id |-> 1, amount |-> 1000,
         date |-> ToISOString(IF 2 * i <= SeedRows THEN 1 ELSE 2)]]

SeedIncome ==
    <<[id |-> 1, user_id |-> 1, amount |-> 1000, date |-> ToISOString(1)],
      [id |-> 2, user_id |-> 2, amount |-> 1000, date |-> ToISOString(1)],
      [id |-> 3, user_id |-> 1, amount |-> 1000, date |-> ToISOString(2)]>>

InitRequests ==
    /\ categories = SeedCategories
    /\ nextCatId = 2
    /\ income = SeedIncome
    /\ expenditure = SeedExpenditure
    /\ now = 2
    /\ req = NoQuery
    /\ resp = Reply(0, "")
    /\ returned = <<>>
    /\ fromStart = FALSE
    /\ stable = TRUE
    /\ fresh = TRUE
    /\ NoTemplates

NextRequests ==
    \/ (Idle /\ \E q \in AllQueries : GetTransactions(q))
    \/ FollowCursor

SpecRequests == InitRequests /\ [][NextRequests]_vars

(* ---------------------- GET /api/budget/dashboard --------------------- *)

\* The model counts time in years: the "current month" of the code is the
\* year the clock shows.  getCurrentMonthRange: the ISO texts of the first
\* instant of this period and of the next one.
getCurrentMonthRange(clock) ==
    [startIso |-> ToISOString(clock), endIso |-> ToISOString(clock + 1)]

RECURSIVE SumAmounts(_)
\* SUM(amount) over rows; 0 for no rows (COALESCE)
SumAmounts(rows) ==
    IF rows = <<>> THEN 0 ELSE Head(rows).amount + SumAmounts(Tail(rows))

\* totalIncome with no bounds on date
totalIncomeAllTime(inc, userId, startIso, endIso) ==
    SumAmounts(SelectSeq(inc, LAMBDA r : r.user_id = userId))

\* SELECT COALESCE(SUM(amount), 0) FROM Income WHERE user_id = ? AND date >= ?
\* AND date < ?
totalIncome(inc, userId, startIso, endIso) ==
    SumAmounts(SelectSeq(inc,
        LAMBDA r : r.user_id = userId /\ r.date >= startIso /\ r.date < endIso))

\* one row of the GROUP BY uc.budget_type of the spending query
spentByCategory(exp, cats, userId, startIso, endIso, budgetType) ==
    SumAmounts(SelectSeq(exp,
        LAMBDA e : /\ e.user_id = userId
                   /\ e.date >= startIso
                   /\ e.date < endIso
                   /\ JoinCategory(cats, e.user_category_id).budget_type = budgetType))

\* the share of the income each bucket gets, in tenths: 0.5, 0.3, 0.2
BudgetShare == [Necessities |-> 5, Leisure |-> 3, Savings |-> 2]

\* The response of the dashboard.  Stored amounts are in thousandths;
\* budget and remaining are in ten-thousandths, so that the product of an
\* amount and a share is exact; spent is in thousandths, as stored.
dashboard(inc, exp, cats, clock, userId) ==
    LET range == getCurrentMonthRange(clock)
        total == totalIncome(inc, userId, range.startIso, range.endIso)
        recent == fetchTransactions(inc, exp, cats, userId, 10, "newest", JsonNull,
                                    "", NoFilter, Null, Null)
    IN  [status |-> 200,
         userId |-> userId,
         totalIncome |-> total,
         budgets |->
             [b \in BUDGET_TYPES |->
                 LET spent == spentByCategory(exp, cats, userId, range.startIso,
                                              range.endIso, b)
                 IN  [budget |-> total * BudgetShare[b],
                      spent |-> spent,
                      remaining |-> total * BudgetShare[b] - 10 * spent]],
         transactions |-> recent.items,
         hasMore |-> recent.nextCursor # NoToken]

\* GET /api/budget/dashboard
GetDashboard(u) ==
    /\ dash' = dashboard(income, expenditure, categories, now, u)
    /\ UNCHANGED <<categories, nextCatId, income, expenditure, now, req, resp,
                   returned, fromStart, stable, fresh, recurring, nextRecId, txn,
                   procs, started, prevImport>>

(* ----------------------- the database connection --------------------- *)

\* Every request runs its statements on the one connection getDb() keeps.  A
\* handler runs from one await to the next without interruption; the
\* statement it awaits is executed at some later step, one statement at a
\* time, with the statements of other requests in between.

feedVars == <<req, resp, returned, fromStart, stable, fresh>>

\* UNIQUE (user_id, name COLLATE NOCASE) and the CHECK on budget_type
categoryInsertAllowed(cats, row) ==
    /\ row.budget_type \in BUDGET_TYPES
    /\ ~\E c \in cats : c.user_id = row.user_id /\ SqlLower(c.name) = SqlLower(row.name)

\* the foreign key without its test: any category id is taken
categoryReferenceUnchecked(cats, categoryId) == categoryId # Null

\* user_category_id INTEGER NOT NULL, FOREIGN KEY ... REFERENCES UserCategory(id)
categoryReferenceAllowed(cats, categoryId) ==
    /\ categoryId # Null
    /\ \E c \in cats : c.id = categoryId

\* ON DELETE RESTRICT of Expenditure and of RecurringExpenditure
categoryDeleteAllowed(exp, recs, categoryId) ==
    /\ ~\E i \in 1..Len(exp) : exp[i].user_category_id = categoryId
    /\ ~\E r \in recs : r.user_category_id = categoryId

\* Math.round(x * 100) / 100 on an amount in thousandths
Round2(amount) == ((amount + 5) \div 10) * 10

\* a request in a slot: the route, the user, the await it stands at, the
\* status once answered, the local variables of the handler, and the number
\* of responses sent (a status is set by res.status(..).json(..), res.json(..)
\* or res.send(..))
Proc(op, userId, pc, status, local) ==
    [op |-> op, userId |-> userId, pc |-> pc, status |-> status, local |-> local,
     sent |-> IF status # 0 THEN 1 ELSE 0]

NoLocal == [none |-> TRUE]
IdleProc == Proc("none", Null, "idle", 0, NoLocal)

\* slot p takes a new request
Accept(p) ==
    /\ procs[p].pc \in {"idle", "done"}
    /\ started < MaxRequests
    /\ started' = started + 1

At(p, op, pc) == procs[p].op = op /\ procs[p].pc = pc

\* the handler in slot p goes on to its next await, or answers
Goto(p, pc, status, local) ==
    procs' = [procs EXCEPT ![p] =
                 [Proc(procs[p].op, procs[p].userId, pc, status, local)
                     EXCEPT !.sent = procs[p].sent + @]]

(* ---------------- POST /api/categories, await by await ---------------- *)

PostCategoryBegin(p, u, name, budgetType) ==
    LET trimmedName == Trim(name)
        existing == \E c \in categories :
                        c.user_id = u /\ SqlLower(c.name) = SqlLower(trimmedName)
        local == [name |-> trimmedName, budget_type |-> budgetType]
    IN  /\ Accept(p)
        /\ procs' = [procs EXCEPT ![p] =
               IF trimmedName = "" THEN Proc("postCategory", u, "done", 400, local)
               ELSE IF StrLen(trimmedName) < 1 \/ StrLen(trimmedName) > MaxCategoryNameLength
               THEN Proc("postCategory", u, "done", 400, local)
               ELSE IF budgetType \notin BUDGET_TYPES
               THEN Proc("postCategory", u, "done", 400, local)
               ELSE IF existing THEN Proc("postCategory", u, "done", 409, local)
               ELSE Proc("postCategory", u, "count", 0, local)]
        /\ UNCHANGED <<categories, nextCatId, income, expenditure, now, feedVars,
                       recurring, nextRecId, txn, prevImport, dash>>

PostCategoryCount(p) ==
    LET existingCount == Cardinality({c \in categories : c.user_id = procs[p].userId})
    IN  /\ At(p, "postCategory", "count")
        /\ IF existingCount >= MaxCategories
           THEN Goto(p, "done", 400, procs[p].local)
           ELSE Goto(p, "insert", 0, procs[p].local)
        /\ UNCHANGED <<categories, nextCatId, income, expenditure, now, feedVars,
                       recurring, nextRecId, txn, started, prevImport, dash>>

PostCategoryInsert(p) ==
    LET row == [id |-> nextCatId, user_id |-> procs[p].userId,
                name |-> procs[p].local.name,
                budget_type |-> procs[p].local.budget_type]
    IN  /\ At(p, "postCategory", "insert")
        /\ IF categoryInsertAllowed(categories, row)
           THEN /\ categories' = categories \cup {row}
                /\ nextCatId' = nextCatId + 1
                /\ prevImport' = NoImport
                /\ Goto(p, "done", 201, procs[p].local)
           ELSE /\ UNCHANGED <<categories, nextCatId, prevImport>>
                /\ Goto(p, "done", 500, procs[p].local)
        /\ UNCHANGED <<income, expenditure, now, feedVars, recurring, nextRecId, txn,
                       started, dash>>

(* --------------- DELETE /api/categories/:id, await by await ----------- *)

DeleteCategoryBegin(p, u, id) ==
    LET categoryId == ParseInt(id)
        category == \E c \in categories : c.id = categoryId.n /\ c.user_id = u
        local == [categoryId |-> categoryId.n, referenced |-> FALSE]
    IN  /\ Accept(p)
        /\ procs' = [procs EXCEPT ![p] =
               IF categoryId.nan \/ categoryId.n <= 0
               THEN Proc("deleteCategory", u, "done", 400, local)
               ELSE IF ~category THEN Proc("deleteCategory", u, "done", 404, local)
               ELSE Proc("deleteCategory", u, "usage", 0, local)]
        /\ UNCHANGED <<categories, nextCatId, income, expenditure, now, feedVars,
                       recurring, nextRecId, txn, prevImport, dash>>

DeleteCategoryUsage(p) ==
    LET total == Cardinality({i \in 1..Len(expenditure) :
                     /\ expenditure[i].user_id = procs[p].userId
                     /\ expenditure[i].user_category_id = procs[p].local.categoryId})
    IN  /\ At(p, "deleteCategory", "usage")
        /\ IF total > 0
           THEN Goto(p, "done", 400, procs[p].local)
           ELSE Goto(p, "delete", 0, procs[p].local)
        /\ UNCHANGED <<categories, nextCatId, income, expenditure, now, feedVars,
                       recurring, nextRecId, txn, started, prevImport, dash>>

\* local.referenced records that an expense referenced the category when the
\* DELETE statement ran
DeleteCategoryRun(p) ==
    LET categoryId == procs[p].local.categoryId
        local == [categoryId |-> categoryId,
                  referenced |-> \E i \in 1..Len(expenditure) :
                                     expenditure[i].user_category_id = categoryId]
    IN  /\ At(p, "deleteCategory", "delete")
        /\ IF categoryDeleteAllowed(expenditure, recurring, categoryId)
           THEN /\ categories' = {c \in categories :
                                    ~(c.id = categoryId /\ c.user_id = procs[p].userId)}
                /\ prevImport' = NoImport
                /\ Goto(p, "done", 204, local)
           ELSE /\ UNCHANGED <<categories, prevImport>>
                /\ Goto(p, "done", 500, local)
        /\ UNCHANGED <<nextCatId, income, expenditure, now, feedVars, recurring,
                       nextRecId, txn, started, dash>>

(* ------------------ POST /api/expense, await by await ----------------- *)

\* without a category the first statement is the INSERT of a NULL
\* user_category_id, which the NOT NULL column refuses
PostExpenseBegin(p, u, amount, userCategoryId) ==
    LET parsedId == ParseInt(userCategoryId)
        given == userCategoryId # ""
        existingCategory == \E c \in categories : c.id = parsedId.n /\ c.user_id = u
        local == [amount |-> amount, categoryId |-> IF given THEN parsedId.n ELSE Null]
    IN  /\ Accept(p)
        /\ procs' = [procs EXCEPT ![p] =
               IF amount <= 0 THEN Proc("postExpense", u, "done", 400, local)
               ELSE IF given /\ (parsedId.nan \/ parsedId.n <= 0)
               THEN Proc("postExpense", u, "done", 400, local)
               ELSE IF given /\ ~existingCategory
               THEN Proc("postExpense", u, "done", 400, local)
               ELSE IF ~given THEN Proc("postExpense", u, "done", 500, local)
               ELSE Proc("postExpense", u, "insert", 0, local)]
        /\ UNCHANGED <<categories, nextCatId, income, expenditure, now, feedVars,
                       recurring, nextRecId, txn, prevImport, dash>>

PostExpenseInsert(p) ==
    /\ At(p, "postExpense", "insert")
    /\ RowCount < MaxRows
    /\ IF categoryReferenceAllowed(categories, procs[p].local.categoryId)
       THEN /\ expenditure' = Append(expenditure,
                    [id |-> Len(expenditure) + 1, user_id |-> procs[p].userId,
                     user_category_id |-> procs[p].local.categoryId,
                     amount |-> procs[p].local.amount, date |-> ToISOString(now)])
            /\ prevImport' = NoImport
            /\ Goto(p, "done", 201, procs[p].local)
       ELSE /\ UNCHANGED <<expenditure, prevImport>>
            /\ Goto(p, "done", 500, procs[p].local)
    /\ UNCHANGED <<categories, nextCatId, income, now, feedVars, recurring, nextRecId,
                   txn, started, dash>>

(* ----------------- POST /api/recurring, await by await ---------------- *)

PostRecurringBegin(p, u, description, defaultAmount, userCategoryId) ==
    LET trimmedDescription == Trim(description)
        normalizedAmount == Round2(defaultAmount)
        categoryId == ParseInt(userCategoryId)
        category == \E c \in categories : c.id = categoryId.n /\ c.user_id = u
        local == [description |-> trimmedDescription, amount |-> normalizedAmount,
                  categoryId |-> categoryId.n]
    IN  /\ Accept(p)
        /\ procs' = [procs EXCEPT ![p] =
               IF trimmedDescription = "" THEN Proc("postRecurring", u, "done", 400, local)
               ELSE IF StrLen(trimmedDescription) > MaxDescriptionLength
               THEN Proc("postRecurring", u, "done", 400, local)
               ELSE IF defaultAmount <= 0 THEN Proc("postRecurring", u, "done", 400, local)
               ELSE IF normalizedAmount # defaultAmount
               THEN Proc("postRecurring", u, "done", 400, local)
               ELSE IF categoryId.nan \/ categoryId.n <= 0
               THEN Proc("postRecurring", u, "done", 400, local)
               ELSE IF ~category THEN Proc("postRecurring", u, "done", 400, local)
               ELSE Proc("postRecurring", u, "count", 0, local)]
        /\ UNCHANGED <<categories, nextCatId, income, expenditure, now, feedVars,
                       recurring, nextRecId, txn, prevImport, dash>>

PostRecurringCount(p) ==
    LET recurringCount == Cardinality({r \in recurring : r.user_id = procs[p].userId})
    IN  /\ At(p, "postRecurring", "count")
        /\ IF recurringCount >= MaxRecurring
           THEN Goto(p, "done", 400, procs[p].local)
           ELSE Goto(p, "insert", 0, procs[p].local)
        /\ UNCHANGED <<categories, nextCatId, income, expenditure, now, feedVars,
                       recurring, nextRecId, txn, started, prevImport, dash>>

PostRecurringInsert(p) ==
    LET row == [id |-> nextRecId, user_id |-> procs[p].userId,
                user_category_id |-> procs[p].local.categoryId,
                description |-> procs[p].local.description,
                default_amount |-> procs[p].local.amount]
    IN  /\ At(p, "postRecurring", "insert")
        /\ IF categoryReferenceAllowed(categories, row.user_category_id)
           THEN /\ recurring' = recurring \cup {row}
                /\ nextRecId' = nextRecId + 1
                /\ prevImport' = NoImport
                /\ Goto(p, "done", 201, procs[p].local)
           ELSE /\ UNCHANGED <<recurring, nextRecId, prevImport>>
                /\ Goto(p, "done", 500, procs[p].local)
        /\ UNCHANGED <<categories, nextCatId, income, expenditure, now, feedVars, txn,
                       started, dash>>

(* -------------- POST /api/templates/import, await by await ------------ *)

\* A payload is [version, categories, recurring]: the lists of category
\* entries [name, budget_type] and of recurring entries [description,
\* default_amount, category_name].

categoryEntryInvalid(item) ==
    LET name == Trim(item.name)
    IN  \/ name = ""
        \/ StrLen(name) > MaxCategoryNameLength
        \/ item.budget_type \notin BUDGET_TYPES

RECURSIVE payloadCategoryMap(_, _)
\* the entries of payloadCategoryMap in insertion order: the first entry of
\* each lowercased name; seen is the set of keys already set
payloadCategoryMap(items, seen) ==
    IF items = <<>> THEN <<>>
    ELSE LET name == Trim(Head(items).name)
             key == ToLowerCase(name)
         IN  IF key \in seen
             THEN payloadCategoryMap(Tail(items), seen)
             ELSE <<[key |-> key, name |-> name, budget_type |-> Head(items).budget_type]>>
                  \o payloadCategoryMap(Tail(items), seen \cup {key})

recurringEntryInvalid(item, payloadKeys) ==
    LET description == Trim(item.description)
        categoryName == Trim(item.category_name)
    IN  \/ description = ""
        \/ StrLen(description) > MaxDescriptionLength
        \/ item.default_amount <= 0
        \/ Round2(item.default_amount) # item.default_amount
        \/ categoryName = ""
        \/ ToLowerCase(categoryName) \notin payloadKeys

RECURSIVE normalizedRecurring(_, _)
\* the entries pushed to normalizedRecurring: the first of each dedupeKey
normalizedRecurring(items, seen) ==
    IF items = <<>> THEN <<>>
    ELSE LET description == Trim(Head(items).description)
             amount == Round2(Head(items).default_amount)
             categoryKey == ToLowerCase(Trim(Head(items).category_name))
             dedupeKey == <<ToLowerCase(description), amount, categoryKey>>
         IN  IF dedupeKey \in seen
             THEN normalizedRecurring(Tail(items), seen)
             ELSE <<[description |-> description, amount |-> amount,
                     categoryKey |-> categoryKey]>>
                  \o normalizedRecurring(Tail(items), seen \cup {dedupeKey})

\* the synchronous validation of the payload: TRUE when it is answered 400
payloadInvalid(doc) ==
    \/ doc.version # "1.0"
    \/ Len(doc.categories) > MaxImportCategories
    \/ Len(doc.recurring) > MaxImportRecurring
    \/ \E i \in 1..Len(doc.categories) : categoryEntryInvalid(doc.categories[i])
    \/ \E i \in 1..Len(doc.recurring) :
           recurringEntryInvalid(doc.recurring[i],
               {ToLowerCase(Trim(doc.categories[j].name)) : j \in 1..Len(doc.categories)})

\* existingCategoryMap keyed by the names as stored, not lowercased
existingCategoryMapCaseSensitive(rows) ==
    [k \in {c.name : c \in rows} |->
        LET ids == {c.id : c \in {x \in rows : x.name = k}}
        IN  CHOOSE i \in ids : \A j \in ids : j <= i]

\* categoryMap as built from the rows read: lowercased name -> id; of two
\* rows with one key the later row stays
existingCategoryMap(rows) ==
    [k \in {ToLowerCase(c.name) : c \in rows} |->
        LET ids == {c.id : c \in {x \in rows : ToLowerCase(x.name) = k}}
        IN  CHOOSE i \in ids : \A j \in ids : j <= i]

\* the key of existingRecurringSet; toFixed(2) writes the amount to two
\* decimals
recurringKey(description, amount, categoryId) ==
    <<ToLowerCase(description), Round2(amount), categoryId>>

\* the local variables of an import handler
ImportLocal(doc, repeatOf, newCategories, items, categoryMap) ==
    [doc |-> doc, repeatOf |-> repeatOf,
     before |-> [categories |-> categories, recurring |-> recurring],
     newCategories |-> newCategories, items |-> items, categoryMap |-> categoryMap,
     existingRecurringSet |-> {}, currentRecurringCount |-> 0,
     insertedCategories |-> 0, insertedRecurring |-> 0,
     insertedCategoryIds |-> {}, insertedRecurringIds |-> {},
     failed |-> 0]

\* the import in slot p is answered
ImportAnswered(p, status) ==
    prevImport' = [userId |-> procs[p].userId, doc |-> procs[p].local.doc, status |-> status]

\* validation, the read of the user's categories and the category limit
ImportBegin(p, u, doc) ==
    LET repeatOf == IF prevImport.status # 0 /\ prevImport.userId = u /\ prevImport.doc = doc
                    THEN prevImport.status ELSE 0
        payloadCats == payloadCategoryMap(doc.categories, {})
        payloadKeys == {payloadCats[i].key : i \in 1..Len(payloadCats)}
        items == normalizedRecurring(doc.recurring, {})
        existingCategories == {c \in categories : c.user_id = u}
        categoryMap == existingCategoryMap(existingCategories)
        potentialNewCategories ==
            SelectSeq(payloadCats, LAMBDA c : c.key \notin DOMAIN categoryMap)
        rejected == ImportLocal(doc, repeatOf, <<>>, <<>>, <<>>)
        status ==
            IF payloadInvalid(doc) THEN 400
            ELSE IF Cardinality(existingCategories) + Len(potentialNewCategories)
                        > MaxCategories
            THEN 400
            ELSE 0
    IN  /\ Accept(p)
        /\ IF status # 0
           THEN /\ procs' = [procs EXCEPT ![p] = Proc("import", u, "done", status, rejected)]
                /\ prevImport' = [userId |-> u, doc |-> doc, status |-> status]
           ELSE /\ procs' = [procs EXCEPT ![p] =
                       Proc("import", u, "recurring", 0,
                            ImportLocal(doc, repeatOf, potentialNewCategories, items,
                                        categoryMap))]
                /\ UNCHANGED prevImport
        /\ UNCHANGED <<categories, nextCatId, income, expenditure, now, feedVars,
                       recurring, nextRecId, txn, dash>>

\* the read of the user's recurring templates
ImportReadRecurring(p) ==
    LET existingRecurringRows == {r \in recurring : r.user_id = procs[p].userId}
    IN  /\ At(p, "import", "recurring")
        /\ Goto(p, "begin", 0,
                [procs[p].local EXCEPT
                    !.existingRecurringSet =
                        {recurringKey(r.description, r.default_amount, r.user_category_id) :
                            r \in existingRecurringRows},
                    !.currentRecurringCount = Cardinality(existingRecurringRows)])
        /\ UNCHANGED <<categories, nextCatId, income, expenditure, now, feedVars,
                       recurring, nextRecId, txn, started, prevImport, dash>>

\* run('BEGIN TRANSACTION'): refused while a transaction is open on the
\* connection
ImportBeginTransaction(p) ==
    /\ At(p, "import", "begin")
    /\ IF txn.open
       THEN /\ Goto(p, "rollback", 0, [procs[p].local EXCEPT !.failed = 500])
            /\ UNCHANGED txn
       ELSE /\ Goto(p, "transaction", 0, procs[p].local)
            /\ txn' = [open |-> TRUE, categories |-> categories, nextCatId |-> nextCatId,
                       recurring |-> recurring, nextRecId |-> nextRecId,
                       income |-> income, expenditure |-> expenditure]
    /\ UNCHANGED <<categories, nextCatId, income, expenditure, now, feedVars,
                   recurring, nextRecId, started, prevImport, dash>>

RECURSIVE scanRecurring(_, _)
\* the loop over normalizedRecurring up to its next await or throw: entries
\* already stored are skipped
scanRecurring(local, items) ==
    IF items = <<>> THEN [kind |-> "commit", items |-> <<>>, categoryId |-> Null]
    ELSE IF Head(items).categoryKey \notin DOMAIN local.categoryMap
    THEN [kind |-> "unmapped", items |-> items, categoryId |-> Null]
    ELSE LET categoryId == local.categoryMap[Head(items).categoryKey]
         IN  IF recurringKey(Head(items).description, Head(items).amount, categoryId)
                    \in local.existingRecurringSet
             THEN scanRecurring(local, Tail(items))
             ELSE IF local.currentRecurringCount >= MaxRecurring
             THEN [kind |-> "limit", items |-> items, categoryId |-> categoryId]
             ELSE [kind |-> "insert", items |-> items, categoryId |-> categoryId]

\* the INSERT of the next new category
ImportInsertCategory(p) ==
    LET local == procs[p].local
        cat == Head(local.newCategories)
        row == [id |-> nextCatId, user_id |-> procs[p].userId, name |-> cat.name,
                budget_type |-> cat.budget_type]
    IN  /\ At(p, "import", "transaction")
        /\ local.newCategories # <<>>
        /\ IF categoryInsertAllowed(categories, row)
           THEN /\ categories' = categories \cup {row}
                /\ nextCatId' = nextCatId + 1
                /\ Goto(p, "transaction", 0,
                        [local EXCEPT
                            !.newCategories = Tail(local.newCategories),
                            !.categoryMap = (cat.key :> nextCatId) @@ local.categoryMap,
                            !.insertedCategories = local.insertedCategories + 1,
                            !.insertedCategoryIds = local.insertedCategoryIds \cup {nextCatId}])
           ELSE /\ UNCHANGED <<categories, nextCatId>>
                /\ Goto(p, "rollback", 0, [local EXCEPT !.failed = 500])
        /\ UNCHANGED <<income, expenditure, now, feedVars, recurring, nextRecId, txn,
                       started, prevImport, dash>>

\* the recurring loop: the INSERT of the next entry that is not stored yet,
\* the throw at the limit, or COMMIT after the last entry
ImportInsertRecurring(p) ==
    LET local == procs[p].local
        scan == scanRecurring(local, local.items)
        item == Head(scan.items)
        row == [id |-> nextRecId, user_id |-> procs[p].userId,
                user_category_id |-> scan.categoryId,
                description |-> item.description, default_amount |-> item.amount]
    IN  /\ At(p, "import", "transaction")
        /\ local.newCategories = <<>>
        /\ scan.kind # "commit"
        /\ IF scan.kind = "insert" /\ categoryReferenceAllowed(categories, scan.categoryId)
           THEN /\ recurring' = recurring \cup {row}
                /\ nextRecId' = nextRecId + 1
                /\ Goto(p, "transaction", 0,
                        [local EXCEPT
                            !.items = Tail(scan.items),
                            !.existingRecurringSet = local.existingRecurringSet \cup
                                {recurringKey(item.description, item.amount, scan.categoryId)},
                            !.insertedRecurring = local.insertedRecurring + 1,
                            !.insertedRecurringIds = local.insertedRecurringIds \cup {nextRecId},
                            !.currentRecurringCount = local.currentRecurringCount + 1])
           ELSE /\ UNCHANGED <<recurring, nextRecId>>
                /\ Goto(p, "rollback", 0,
                        [local EXCEPT !.failed = IF scan.kind = "limit" THEN 400 ELSE 500])
        /\ UNCHANGED <<categories, nextCatId, income, expenditure, now, feedVars, txn,
                       started, prevImport, dash>>

\* run('COMMIT'): refused when no transaction is open
ImportCommit(p) ==
    LET local == procs[p].local
    IN  /\ At(p, "import", "transaction")
        /\ local.newCategories = <<>>
        /\ scanRecurring(local, local.items).kind = "commit"
        /\ IF txn.open
           THEN /\ txn' = NoTxn
                /\ Goto(p, "done", 200, [local EXCEPT !.items = <<>>])
                /\ ImportAnswered(p, 200)
           ELSE /\ UNCHANGED <<txn, prevImport>>
                /\ Goto(p, "rollback", 0, [local EXCEPT !.failed = 500])
        /\ UNCHANGED <<categories, nextCatId, income, expenditure, now, feedVars,
                       recurring, nextRecId, started, dash>>

\* ImportRollback without the outer try: the error of a ROLLBACK with no
\* transaction open leaves the handler and the request is not answered
ImportRollbackUncaught(p) ==
    /\ At(p, "import", "rollback")
    /\ IF txn.open
       THEN /\ categories' = txn.categories
            /\ nextCatId' = txn.nextCatId
            /\ recurring' = txn.recurring
            /\ nextRecId' = txn.nextRecId
            /\ income' = txn.income
            /\ expenditure' = txn.expenditure
            /\ txn' = NoTxn
            /\ Goto(p, "done", procs[p].local.failed, procs[p].local)
            /\ ImportAnswered(p, procs[p].local.failed)
       ELSE /\ UNCHANGED <<categories, nextCatId, recurring, nextRecId, income,
                           expenditure, txn, prevImport>>
            /\ Goto(p, "done", 0, procs[p].local)
    /\ UNCHANGED <<now, feedVars, started, dash>>

\* run('ROLLBACK') in the catch, then the error is answered: with its
\* statusCode, or 500; a ROLLBACK with no transaction open throws, which is
\* answered 500
ImportRollback(p) ==
    /\ At(p, "import", "rollback")
    /\ IF txn.open
       THEN /\ categories' = txn.categories
            /\ nextCatId' = txn.nextCatId
            /\ recurring' = txn.recurring
            /\ nextRecId' = txn.nextRecId
            /\ income' = txn.income
            /\ expenditure' = txn.expenditure
            /\ txn' = NoTxn
            /\ Goto(p, "done", procs[p].local.failed, procs[p].local)
            /\ ImportAnswered(p, procs[p].local.failed)
       ELSE /\ UNCHANGED <<categories, nextCatId, recurring, nextRecId, income,
                           expenditure, txn>>
            /\ Goto(p, "done", 500, procs[p].local)
            /\ ImportAnswered(p, 500)
    /\ UNCHANGED <<now, feedVars, started, dash>>

(* ------------------------- GET /api/categories ------------------------ *)

\* the categories inserted by imports of other slots that have begun their
\* transaction and have neither committed nor rolled back
UncommittedCategoryIds(p) ==
    UNION {procs[q].local.insertedCategoryIds :
              q \in {x \in DOMAIN procs \ {p} :
                        procs[x].op = "import" /\ procs[x].pc \in {"transaction", "rollback"}}}

\* one SELECT; local.uncommitted holds the rows read that an import in
\* progress had inserted
GetCategories(p, u) ==
    LET rows == {c \in categories : c.user_id = u}
    IN  /\ Accept(p)
        /\ procs' = [procs EXCEPT ![p] =
               Proc("getCategories", u, "done", 200,
                    [rows |-> rows,
                     uncommitted |-> {c \in rows : c.id \in UncommittedCategoryIds(p)}])]
        /\ UNCHANGED <<categories, nextCatId, income, expenditure, now, feedVars,
                       recurring, nextRecId, txn, prevImport, dash>>

(* ------------- specifications of the template routes ------------------ *)

\* the store user 1 has filled to one below both limits; user 2 has nothing.
\* Every seeded recurring template is in category 1.
SeedUserCategories ==
    {[id |-> i, user_id |-> 1, name |-> "c" \o ToString(i), budget_type |-> "Necessities"] :
        i \in 1..SeedTemplates}

SeedRecurring ==
    {[id |-> i, user_id |-> 1, user_category_id |-> 1,
      description |-> "r" \o ToString(i), default_amount |-> 1000] :
        i \in 1..SeedTemplates}

\* template documents: one new category with one recurring entry; the same
\* with a second recurring entry; entries repeated in other letter case and
\* spacing; an unsupported version
RentEntry == [name |-> "Rent", budget_type |-> "Leisure"]
GymEntry == [description |-> " Gym ", default_amount |-> 1000, category_name |-> " rent"]
FlatEntry == [description |-> "Rent", default_amount |-> 2500, category_name |-> "Rent"]

OneTemplate == [version |-> "1.0", categories |-> <<RentEntry>>, recurring |-> <<GymEntry>>]
TwoTemplates ==
    [version |-> "1.0", categories |-> <<RentEntry>>, recurring |-> <<GymEntry, FlatEntry>>]
RepeatedEntries ==
    [version |-> "1.0",
     categories |-> <<RentEntry, [name |-> " rent", budget_type |-> "Savings"]>>,
     recurring |-> <<GymEntry,
                     [description |-> "Gym", default_amount |-> 1000, category_name |-> "Rent"]>>]
OldVersion == [version |-> "0.9", categories |-> <<RentEntry>>, recurring |-> <<GymEntry>>]

Documents == {OneTemplate, TwoTemplates, RepeatedEntries, OldVersion}

CategoryNames == {"Rent", " rent", "École", "école"}

InitTemplates ==
    /\ categories = SeedUserCategories
    /\ nextCatId = SeedTemplates + 1
    /\ income = <<>>
    /\ expenditure = <<>>
    /\ now = 1
    /\ req = NoQuery
    /\ resp = Reply(0, "")
    /\ returned = <<>>
    /\ fromStart = FALSE
    /\ stable = TRUE
    /\ fresh = TRUE
    /\ recurring = SeedRecurring
    /\ nextRecId = SeedTemplates + 1
    /\ txn = NoTxn
    /\ procs = <<IdleProc>>
    /\ started = 0
    /\ prevImport = NoImport
    /\ dash = NoDashboard

\* the steps every handler takes after its first await
HandlerSteps ==
    \/ \E p \in DOMAIN procs : PostCategoryCount(p)
    \/ \E p \in DOMAIN procs : PostCategoryInsert(p)
    \/ \E p \in DOMAIN procs : DeleteCategoryUsage(p)
    \/ \E p \in DOMAIN procs : DeleteCategoryRun(p)
    \/ \E p \in DOMAIN procs : PostExpenseInsert(p)
    \/ \E p \in DOMAIN procs : PostRecurringCount(p)
    \/ \E p \in DOMAIN procs : PostRecurringInsert(p)
    \/ \E p \in DOMAIN procs : ImportReadRecurring(p)
    \/ \E p \in DOMAIN procs : ImportBeginTransaction(p)
    \/ \E p \in DOMAIN procs : ImportInsertCategory(p)
    \/ \E p \in DOMAIN procs : ImportInsertRecurring(p)
    \/ \E p \in DOMAIN procs : ImportCommit(p)
    \/ \E p \in DOMAIN procs : ImportRollback(p)

\* the requests of both users, each handler taking its steps in its slot
NextTemplates ==
    \/ \E p \in DOMAIN procs, u \in Users, name \in CategoryNames :
           PostCategoryBegin(p, u, name, "Leisure")
    \/ \E p \in DOMAIN procs, id \in {"1", "2"} : DeleteCategoryBegin(p, 1, id)
    \/ \E p \in DOMAIN procs : PostExpenseBegin(p, 1, 1000, "2")
    \/ \E p \in DOMAIN procs, a \in {1000, 1234} : PostRecurringBegin(p, 1, " Gym ", a, "1")
    \/ \E p \in DOMAIN procs, u \in Users, doc \in Documents : ImportBegin(p, u, doc)
    \/ \E p \in DOMAIN procs : GetCategories(p, 1)
    \/ HandlerSteps

\* one request at a time
SpecTemplates == InitTemplates /\ [][NextTemplates]_vars

\* two requests at a time
InitConcurrent ==
    /\ categories = SeedUserCategories
    /\ nextCatId = SeedTemplates + 1
    /\ income = <<>>
    /\ expenditure = <<>>
    /\ now = 1
    /\ req = NoQuery
    /\ resp = Reply(0, "")
    /\ returned = <<>>
    /\ fromStart = FALSE
    /\ stable = TRUE
    /\ fresh = TRUE
    /\ recurring = SeedRecurring
    /\ nextRecId = SeedTemplates + 1
    /\ txn = NoTxn
    /\ procs = <<IdleProc, IdleProc>>
    /\ started = 0
    /\ prevImport = NoImport
    /\ dash = NoDashboard

\* the requests of user 1 that race with one another
NextConcurrent ==
    \/ \E p \in DOMAIN procs, name \in {"Rent", "École", "école"} :
           PostCategoryBegin(p, 1, name, "Leisure")
    \/ \E p \in DOMAIN procs : DeleteCategoryBegin(p, 1, "2")
    \/ \E p \in DOMAIN procs : PostExpenseBegin(p, 1, 1000, "2")
    \/ \E p \in DOMAIN procs : PostRecurringBegin(p, 1, " Gym ", 1000, "1")
    \/ \E p \in DOMAIN procs, doc \in {OneTemplate, TwoTemplates} : ImportBegin(p, 1, doc)
    \/ \E p \in DOMAIN procs : GetCategories(p, 1)
    \/ HandlerSteps

SpecConcurrent == InitConcurrent /\ [][NextConcurrent]_vars

(* ----------------------- GET /api/templates/export -------------------- *)

\* the place of a text under COLLATE NOCASE, which compares the bytes after
\* folding the 26 ASCII letters: "Gym" < "Rent" = "rent" < "École" < "école"
NocaseRank(s) ==
    CASE SqlLower(s) = "food" -> 1
      [] SqlLower(s) = "gym" -> 2
      [] SqlLower(s) = "rent" -> 3
      [] s = "École" -> 4
      [] s = "école" -> 5
      [] OTHER -> 6

RECURSIVE categoriesInOrder(_)
\* SELECT name, budget_type ... ORDER BY name COLLATE NOCASE, rows of equal
\* rank in the order of their ids, mapped to the entries of the payload
categoriesInOrder(rows) ==
    IF rows = {} THEN <<>>
    ELSE LET first == CHOOSE c \in rows : \A d \in rows :
                          \/ NocaseRank(c.name) < NocaseRank(d.name)
                          \/ NocaseRank(c.name) = NocaseRank(d.name) /\ c.id <= d.id
         IN  <<[name |-> first.name, budget_type |-> first.budget_type]>>
             \o categoriesInOrder(rows \ {first})

RECURSIVE recurringInOrder(_, _)
\* SELECT r.description, r.default_amount, uc.name AS category_name ...
\* ORDER BY r.description COLLATE NOCASE, without the rows whose category
\* name is null or empty
recurringInOrder(rows, cats) ==
    IF rows = {} THEN <<>>
    ELSE LET first == CHOOSE r \in rows : \A d \in rows :
                          \/ NocaseRank(r.description) < NocaseRank(d.description)
                          \/ /\ NocaseRank(r.description) = NocaseRank(d.description)
                             /\ r.id <= d.id
             category_name == JoinCategory(cats, first.user_category_id).name
         IN  (IF category_name \in {NullText, ""} THEN <<>>
              ELSE <<[description |-> first.description,
                      default_amount |-> first.default_amount,
                      category_name |-> category_name]>>)
             \o recurringInOrder(rows \ {first}, cats)

\* the payload, as the JSON text sent parses back: the texts and the finite
\* numbers are kept as they are; generatedAt is not read by the import
exportPayload(categoryEntries, recs, cats, userId) ==
    [version |-> "1.0",
     categories |-> categoryEntries,
     recurring |-> recurringInOrder({r \in recs : r.user_id = userId}, cats)]

\* the read of the user's categories
GetExportBegin(p, u) ==
    /\ Accept(p)
    /\ procs' = [procs EXCEPT ![p] =
           Proc("export", u, "recurring", 0,
                [categories |-> categoriesInOrder({c \in categories : c.user_id = u})])]
    /\ UNCHANGED <<categories, nextCatId, income, expenditure, now, feedVars,
                   recurring, nextRecId, txn, prevImport, dash>>

\* the read of the user's recurring templates, and the file is sent
GetExportRecurring(p) ==
    /\ At(p, "export", "recurring")
    /\ Goto(p, "done", 200,
            [doc |-> exportPayload(procs[p].local.categories, recurring, categories,
                                   procs[p].userId)])
    /\ UNCHANGED <<categories, nextCatId, income, expenditure, now, feedVars,
                   recurring, nextRecId, txn, started, prevImport, dash>>

\* POST /api/templates/import by user u with the file that slot p was sent
ImportExported(p, u) ==
    /\ At(p, "export", "done")
    /\ ImportBegin(p, u, procs[p].local.doc)

(* ------------ specification of export followed by import -------------- *)

\* user 1 has created two categories and one recurring template through
\* POST /api/categories and POST /api/recurring; user 2 has nothing
ExportSeedCategories ==
    {[id |-> 1, user_id |-> 1, name |-> "Rent", budget_type |-> "Leisure"],
     [id |-> 2, user_id |-> 1, name |-> "École", budget_type |-> "Savings"]}

ExportSeedRecurring ==
    {[id |-> 1, user_id |-> 1, user_category_id |-> 1,
      description |-> "Gym", default_amount |-> 1000]}

InitExport ==
    /\ categories = ExportSeedCategories
    /\ nextCatId = 3
    /\ income = <<>>
    /\ expenditure = <<>>
    /\ now = 1
    /\ req = NoQuery
    /\ resp = Reply(0, "")
    /\ returned = <<>>
    /\ fromStart = FALSE
    /\ stable = TRUE
    /\ fresh = TRUE
    /\ recurring = ExportSeedRecurring
    /\ nextRecId = 2
    /\ txn = NoTxn
    /\ procs = <<IdleProc>>
    /\ started = 0
    /\ prevImport = NoImport
    /\ dash = NoDashboard

\* user 1 creates categories and recurring templates and exports; user 2
\* imports the file
NextExport ==
    \/ \E p \in DOMAIN procs, name \in {"Food", "école"} :
           PostCategoryBegin(p, 1, name, "Leisure")
    \/ \E p \in DOMAIN procs : PostCategoryCount(p)
    \/ \E p \in DOMAIN procs : PostCategoryInsert(p)
    \/ \E p \in DOMAIN procs, a \in {1000, 1234}, c \in {"1", "2"} :
           PostRecurringBegin(p, 1, " Gym ", a, c)
    \/ \E p \in DOMAIN procs : PostRecurringCount(p)
    \/ \E p \in DOMAIN procs : PostRecurringInsert(p)
    \/ \E p \in DOMAIN procs : GetExportBegin(p, 1)
    \/ \E p \in DOMAIN procs : GetExportRecurring(p)
    \/ \E p \in DOMAIN procs : ImportExported(p, 2)
    \/ \E p \in DOMAIN procs : ImportReadRecurring(p)
    \/ \E p \in DOMAIN procs : ImportBeginTransaction(p)
    \/ \E p \in DOMAIN procs : ImportInsertCategory(p)
    \/ \E p \in DOMAIN procs : ImportInsertRecurring(p)
    \/ \E p \in DOMAIN procs : ImportCommit(p)

SpecExport == InitExport /\ [][NextExport]_vars

(* --------------------------- store failures --------------------------- *)

\* run, get and all reject with the error of the store, which carries a
\* message and no statusCode
StoreErrorText == "SQLITE_IOERR: disk I/O error"
StoreError == [statusCode |-> Null, message |-> StoreErrorText]

\* the text the catch of each handler answers with
catchMessage(op) ==
    CASE op = "postCategory" -> "Failed to create category."
      [] op = "getCategories" -> "Failed to load categories."
      [] op = "deleteCategory" -> "Failed to delete category."
      [] op = "postExpense" -> "Failed to record expense."
      [] op = "postRecurring" -> "Failed to create recurring template."
      [] op = "export" -> "Failed to export template."
      [] op = "import" -> "Failed to import template."

\* the local variables of a handler whose catch has answered the error that
\* the statement awaited at pc was rejected with
Caught(op, pc, error) ==
    [storeError |-> error.message, at |-> pc, message |-> catchMessage(op)]

\* the catch of GET /api/transactions
transactionsCatch(error) ==
    [Reply(IF error.statusCode # Null THEN error.statusCode ELSE 500,
           IF error.message # "" THEN error.message ELSE "Failed to load transactions.")
        EXCEPT !.queried = TRUE]

\* the store rejects the statement the handler in slot p awaits: inside the
\* transaction of an import the inner catch runs ROLLBACK; everywhere else
\* the catch of the handler answers
StoreFails(p) ==
    LET op == procs[p].op
        inTransaction == op = "import" /\ procs[p].pc \in {"begin", "transaction"}
    IN  /\ procs[p].pc \notin {"idle", "done"}
        /\ IF inTransaction
           THEN /\ Goto(p, "rollback", 0, [procs[p].local EXCEPT !.failed = 500])
                /\ UNCHANGED prevImport
           ELSE /\ Goto(p, "done", 500, Caught(op, procs[p].pc, StoreError))
                /\ IF op = "import" THEN ImportAnswered(p, 500) ELSE UNCHANGED prevImport
        /\ UNCHANGED <<categories, nextCatId, income, expenditure, now, feedVars,
                       recurring, nextRecId, txn, started, dash>>

\* the store rejects the first statement of a request that passed validation
RequestStoreFails(p, u, op) ==
    /\ Accept(p)
    /\ procs' = [procs EXCEPT ![p] = Proc(op, u, "done", 500, Caught(op, "begin", StoreError))]
    /\ UNCHANGED <<categories, nextCatId, income, expenditure, now, feedVars,
                   recurring, nextRecId, txn, prevImport, dash>>

\* GET /api/transactions with a valid query q: the store rejects the SELECT
\* of fetchTransactions
GetTransactionsStoreFails(q) ==
    /\ getTransactions(income, expenditure, categories, q).queried
    /\ req' = q
    /\ resp' = transactionsCatch(StoreError)
    /\ returned' = <<>>
    /\ fromStart' = (q.cursor = NoToken)
    /\ stable' = TRUE
    /\ fresh' = TRUE
    /\ UNCHANGED <<categories, nextCatId, income, expenditure, now, templateVars>>

(* ---------------- specification with a failing store ------------------ *)

FaultQueries == {Query(1, "1", "", NoToken, "", "", "", "")}

SingleAwaitRoutes ==
    {"postCategory", "getCategories", "deleteCategory", "postExpense", "postRecurring",
     "export"}

InitFaults ==
    /\ categories = ExportSeedCategories
    /\ nextCatId = 3
    /\ income = <<>>
    /\ expenditure = <<>>
    /\ now = 1
    /\ req = NoQuery
    /\ resp = Reply(0, "")
    /\ returned = <<>>
    /\ fromStart = FALSE
    /\ stable = TRUE
    /\ fresh = TRUE
    /\ recurring = ExportSeedRecurring
    /\ nextRecId = 2
    /\ txn = NoTxn
    /\ procs = <<IdleProc>>
    /\ started = 0
    /\ prevImport = NoImport
    /\ dash = NoDashboard

\* the requests, each statement of which the store may reject
NextFaults ==
    \/ \E p \in DOMAIN procs, name \in {"Food", "école"} :
           PostCategoryBegin(p, 1, name, "Leisure")
    \/ \E p \in DOMAIN procs : DeleteCategoryBegin(p, 1, "2")
    \/ \E p \in DOMAIN procs : PostExpenseBegin(p, 1, 1000, "2")
    \/ \E p \in DOMAIN procs : PostRecurringBegin(p, 1, " Gym ", 1000, "1")
    \/ \E p \in DOMAIN procs : ImportBegin(p, 2, TwoTemplates)
    \/ \E p \in DOMAIN procs : GetCategories(p, 1)
    \/ \E p \in DOMAIN procs : GetExportBegin(p, 1)
    \/ \E p \in DOMAIN procs : GetExportRecurring(p)
    \/ HandlerSteps
    \/ \E p \in DOMAIN procs : StoreFails(p)
    \/ \E p \in DOMAIN procs, op \in SingleAwaitRoutes : RequestStoreFails(p, 1, op)
    \/ (Idle /\ \E q \in FaultQueries : GetTransactions(q))
    \/ FollowCursor
    \/ (Idle /\ \E q \in FaultQueries : GetTransactionsStoreFails(q))

SpecFaults == InitFaults /\ [][NextFaults]_vars

(* ---------------- specification of ledger and dashboard --------------- *)

\* user 1 has a category in each bucket, user 2 one category
LedgerCategories ==
    {[id |-> 1, user_id |-> 1, name |-> "Food", budget_type |-> "Necessities"],
     [id |-> 2, user_id |-> 1, name |-> "Gym", budget_type |-> "Leisure"],
     [id |-> 3, user_id |-> 1, name |-> "Rent", budget_type |-> "Savings"],
     [id |-> 4, user_id |-> 2, name |-> "Food", budget_type |-> "Necessities"]}

\* Number(amount) in thousandths: 0, 1.234 and 2.50
LedgerAmounts == {0, 1234, 2500}

InitLedger ==
    /\ categories = LedgerCategories
    /\ nextCatId = 5
    /\ income = <<>>
    /\ expenditure = <<>>
    /\ now = 1
    /\ req = NoQuery
    /\ resp = Reply(0, "")
    /\ returned = <<>>
    /\ fromStart = FALSE
    /\ stable = TRUE
    /\ fresh = TRUE
    /\ recurring = {}
    /\ nextRecId = 1
    /\ txn = NoTxn
    /\ procs = <<IdleProc>>
    /\ started = 0
    /\ prevImport = NoImport
    /\ dash = NoDashboard

\* No dashboard has been answered yet.  The dashboard depends on the tables
\* and the clock alone, so it is requested once, after the writes; dash is
\* then the response to the store as it stands.
NoDashboardYet == dash.status = 0

NextLedger ==
    \/ (NoDashboardYet /\ \E u \in Users, a \in LedgerAmounts : PostIncome(u, a))
    \/ (NoDashboardYet /\ \E u \in Users, a \in LedgerAmounts, c \in {"1", "2", "4"} :
            PostExpense(u, a, c))
    \/ (NoDashboardYet /\ SetClock)
    \/ (NoDashboardYet /\ \E u \in Users : GetDashboard(u))

SpecLedger == InitLedger /\ [][NextLedger]_vars

\* the creation of incomes, expenses and recurring templates by user 1
NextAmounts ==
    \/ \E a \in LedgerAmounts : PostIncome(1, a)
    \/ \E a \in LedgerAmounts, c \in {"", "1"} : PostExpense(1, a, c)
    \/ \E a \in LedgerAmounts, d \in {" Gym ", "   "}, c \in {"2", "4"} :
           PostRecurringBegin(1, 1, d, a, c)
    \/ PostRecurringCount(1)
    \/ PostRecurringInsert(1)

SpecAmounts == InitLedger /\ [][NextAmounts]_vars

(* ====================================================================== *)
(* Properties of the feed                                                 *)
(* ====================================================================== *)

\* typeRank: income sorts before expense
TypeOrderOf(type) == IF type = "Income" THEN 0 ELSE 1

TripleOf(item) ==
    [date |-> item.date, typeOrder |-> TypeOrderOf(item.type), id |-> item.id]

\* the total order of the feed on triples: newest first is timestamp
\* descending, typeRank ascending, rowId descending; oldest first is all three
\* ascending
FeedBefore(a, b, sort) ==
    IF sort = "newest"
    THEN \/ a.date > b.date
         \/ (a.date = b.date /\ a.typeOrder < b.typeOrder)
         \/ (a.date = b.date /\ a.typeOrder = b.typeOrder /\ a.id > b.id)
    ELSE \/ a.date < b.date
         \/ (a.date = b.date /\ a.typeOrder < b.typeOrder)
         \/ (a.date = b.date /\ a.typeOrder = b.typeOrder /\ a.id < b.id)

ActiveSort == normalizeSort(req.sort)
HasCursor == req.cursor # NoToken
Served == resp.status = 200

\* the rows of the requesting user, as (type, id, year, category)
OwnRows ==
    {[type |-> "Income", id |-> income[i].id, date |-> income[i].date,
      category_id |-> Null] : i \in {j \in 1..Len(income) : income[j].user_id = req.userId}}
    \cup
    {[type |-> "Expense", id |-> expenditure[i].id, date |-> expenditure[i].date,
      category_id |-> expenditure[i].user_category_id] :
        i \in {j \in 1..Len(expenditure) : expenditure[j].user_id = req.userId}}

\* the filters of the request, read off its parameters
WantedType == normalizeType(Trim(req.type))
WantedCategory == parseCategoryParam(Trim(req.category_id))

MatchesRequest(r) ==
    /\ WantedType # "" => r.type = WantedType
    /\ WantedCategory.kind = "id" =>
           (r.type = "Expense" /\ r.category_id = WantedCategory.value)
    /\ WantedCategory.kind = "uncategorized" =>
           (r.type = "Expense" /\ r.category_id = Null)
    /\ req.from # "" => r.date >= NewDate(req.from).year
    /\ req.to # "" => r.date <= NewDate(req.to).year

KeyOf(item) == <<item.type, item.id>>
ReturnedKeys == {KeyOf(returned[i]) : i \in 1..Len(returned)}
MatchingKeys == {KeyOf(r) : r \in {x \in OwnRows : MatchesRequest(x)}}

\* the walk followed nextCursor from a first page to the end, with no write
WalkComplete ==
    /\ fromStart
    /\ stable
    /\ Served
    /\ resp.nextCursor = NoToken

\* C1: with no writes between page fetches, the pages of a walk followed to
\* nextCursor = null hold exactly the user's rows that match the filters,
\* each row once.
C1_WalkReturnsEveryRow ==
    WalkComplete =>
        /\ ReturnedKeys = MatchingKeys
        /\ Len(returned) = Cardinality(MatchingKeys)

\* the triple the cursor of the request carries
CursorTriple ==
    [date |-> decodeCursor(req.cursor).date, typeOrder |-> decodeCursor(req.cursor).typeOrder,
     id |-> decodeCursor(req.cursor).id]

\* C2: no item of a page fetched with cursor C has a triple equal to C's.
C2_CursorExclusive ==
    (HasCursor /\ Served) =>
        \A i \in 1..Len(resp.items) : TripleOf(resp.items[i]) # CursorTriple

\* a page was served for a cursor that is the triple of a row of the user
\* which matches the filters, in either sort
C2_Witness ==
    /\ fresh
    /\ HasCursor
    /\ Served
    /\ resp.items # <<>>
    /\ \E r \in OwnRows : MatchesRequest(r) /\ TripleOf(r) = CursorTriple

\* C3: the rows returned over the pages of a walk are strictly ordered by the
\* feed comparator, the earlier returned row first; no two compare equal.
C3_TotalOrder ==
    \A i, j \in 1..Len(returned) :
        i < j => /\ FeedBefore(TripleOf(returned[i]), TripleOf(returned[j]), ActiveSort)
                 /\ ~FeedBefore(TripleOf(returned[j]), TripleOf(returned[i]), ActiveSort)

\* a second page brought rows, and the walk holds an income and an expense
\* with the same id and date
C3_Witness ==
    /\ HasCursor
    /\ Served
    /\ resp.items # <<>>
    /\ \E i, j \in 1..Len(returned) :
          /\ returned[i].type = "Income"
          /\ returned[j].type = "Expense"
          /\ returned[i].id = returned[j].id
          /\ returned[i].date = returned[j].date

\* C4: an income and an expense of one user with the same timestamp: a page
\* that holds the expense holds the income before it, unless the filters or
\* the cursor exclude the income; and over a walk the income is never
\* returned after the expense.  In both sorts, whatever the ids.
C4_IncomeBeforeExpense ==
    Served =>
        /\ \A j \in 1..Len(resp.items) : \A r \in OwnRows :
              ( /\ fresh
                /\ resp.items[j].type = "Expense"
                /\ r.type = "Income"
                /\ r.date = resp.items[j].date
                /\ MatchesRequest(r)
                /\ HasCursor => FeedBefore(CursorTriple, TripleOf(r), ActiveSort) )
              => \E i \in 1..(j - 1) : KeyOf(resp.items[i]) = KeyOf(r)
        /\ \A i, j \in 1..Len(returned) :
              ( /\ returned[i].type = "Income"
                /\ returned[j].type = "Expense"
                /\ returned[i].date = returned[j].date )
              => i < j

\* oldest first, the income has the larger id and still comes first
C4_Witness ==
    /\ fresh
    /\ Served
    /\ ActiveSort = "oldest"
    /\ \E i, j \in 1..Len(resp.items) :
          /\ i < j
          /\ resp.items[i].type = "Income"
          /\ resp.items[j].type = "Expense"
          /\ resp.items[i].date = resp.items[j].date
          /\ resp.items[i].id > resp.items[j].id

\* C5: whatever inserts interleave with the walk, every item of a page
\* fetched with cursor C sorts strictly after C, and no row is returned twice.
C5_PositionStable ==
    /\ (HasCursor /\ Served) =>
          \A i \in 1..Len(resp.items) :
              FeedBefore(CursorTriple, TripleOf(resp.items[i]), ActiveSort)
    /\ \A i, j \in 1..Len(returned) :
          i # j => KeyOf(returned[i]) # KeyOf(returned[j])

\* a page fetched after a write that followed the first page brought rows
C5_Witness ==
    /\ ~stable
    /\ fresh
    /\ HasCursor
    /\ Served
    /\ resp.items # <<>>

(* ====================================================================== *)
(* Properties of the request validation                                   *)
(* ====================================================================== *)

\* the answer to the same request sent without its cursor
WithoutCursor ==
    getTransactions(income, expenditure, categories, [req EXCEPT !.cursor = NoToken])

\* the answer to the same request sent without from and to
WithoutRange ==
    getTransactions(income, expenditure, categories,
                    [req EXCEPT !.from = "", !.to = ""])

\* the token decodes to a JSON object that names the sort of the request
CursorNamesSort ==
    /\ req.cursor.kind = "b64"
    /\ IsObject(decodeCursor(req.cursor))
    /\ SortOf(decodeCursor(req.cursor)) = ActiveSort

\* the token cannot be decoded, or decodes to a value without date, typeOrder
\* or id, or names another sort than the request
CursorInvalid ==
    /\ HasCursor
    /\ \/ ~CursorNamesSort
       \/ {"date", "typeOrder", "id"} \ DOMAIN decodeCursor(req.cursor) # {}

\* C6 as stated: a request with an invalid cursor is answered 400 "Invalid
\* cursor." with no items.
C6_InvalidCursorMessage ==
    CursorInvalid =>
        /\ resp.status = 400
        /\ resp.message = "Invalid cursor."
        /\ resp.items = <<>>

\* C6: a request with an invalid cursor is answered 400 with no items and no
\* query of the store.  The message is "Invalid cursor.", except that a token
\* which decodes to an object naming the request's sort is tested for its
\* fields last: when another parameter is rejected, the answer is the one the
\* request gets without the cursor.
C6_InvalidCursorRejected ==
    CursorInvalid =>
        /\ resp.status = 400
        /\ resp.items = <<>>
        /\ ~resp.queried
        /\ resp.message =
              IF CursorNamesSort /\ WithoutCursor.status = 400
              THEN WithoutCursor.message
              ELSE "Invalid cursor."

\* a cursor naming the right sort, with a field missing, rejected on its own
C6_Witness ==
    /\ CursorInvalid
    /\ CursorNamesSort
    /\ WithoutCursor.status = 200
    /\ resp.status = 400
    /\ resp.message = "Invalid cursor."

\* the answer to the same request sent without its limit
WithoutLimit ==
    getTransactions(income, expenditure, categories, [req EXCEPT !.limit = ""])

\* C7: whatever the limit (0, -5, 1000, ...), the request is answered as it
\* is without a limit: 200 when its other parameters are accepted, and then
\* with at most 50 items.
C7_LimitNeverRejected ==
    /\ ~Idle => resp.status = WithoutLimit.status
    /\ Served => Len(resp.items) <= 50

\* limit=1000 answered with a full page of 50 of the stored rows
C7_Witness ==
    /\ req.limit = "1000"
    /\ Served
    /\ Len(resp.items) = 50
    /\ resp.nextCursor # NoToken

LimitIsInteger == req.limit \in DOMAIN DecimalStrings
LimitValue == DecimalStrings[req.limit]

IncomeWithCategory ==
    /\ ToLowerCase(Trim(req.type)) = "income"
    /\ WantedCategory.kind \in {"id", "uncategorized"}

\* the handler rejects the token before it reads any other parameter
CursorRejectedFirst ==
    /\ HasCursor
    /\ \/ req.cursor.kind = "garbage"
       \/ ~Truthy(decodeCursor(req.cursor))
       \/ SortOf(decodeCursor(req.cursor)) # ActiveSort

\* C9 as stated: type=income with a valid category_id is answered 400
\* reporting incompatible filters, and the feed query is not executed.
C9_IncompatibleFilters ==
    IncomeWithCategory =>
        /\ resp.status = 400
        /\ resp.message = "Category filter only applies to expenses."
        /\ ~resp.queried

\* C9: type=income with a valid category_id is answered 400 and the feed
\* query is not executed; the message reports the incompatible filters unless
\* the request carries a cursor that cannot be decoded or names another sort,
\* which is reported first.
C9_IncompatibleFiltersRejected ==
    IncomeWithCategory =>
        /\ resp.status = 400
        /\ ~resp.queried
        /\ resp.message =
              IF CursorRejectedFirst
              THEN "Invalid cursor."
              ELSE "Category filter only applies to expenses."

\* type=Income with category_id=Uncategorized reported as incompatible
C9_Witness ==
    /\ req.type = "Income"
    /\ req.category_id = "Uncategorized"
    /\ resp.status = 400
    /\ resp.message = "Category filter only applies to expenses."

BothBoundsParse ==
    /\ req.from # "" /\ ~NewDate(req.from).nan
    /\ req.to # "" /\ ~NewDate(req.to).nan

\* C10: a request whose other parameters are accepted and whose from is
\* later than its to is answered 400 reporting the range, and the feed query
\* is not executed; with from equal to to it is served.
C10_InvalidRange ==
    (BothBoundsParse /\ WithoutRange.status = 200) =>
        /\ NewDate(req.from).year > NewDate(req.to).year =>
              /\ resp.status = 400
              /\ resp.message = "from must be earlier than to."
              /\ ~resp.queried
        /\ NewDate(req.from).year = NewDate(req.to).year => Served

(* ====================================================================== *)
(* Properties of the filters and of the user scope                        *)
(* ====================================================================== *)

\* the year of the instant an ISO-8601 text of the given rank denotes
YearOfIso(rank) == IF rank < 0 THEN rank + 100 * MaxIsoYear ELSE rank

\* C11: every item of a served page satisfies all the filters of the request
\* at once: its type is the type filter, its category is the category filter
\* (null for uncategorized) and it is an Expense whenever a category filter
\* is given, and its date is not before from and not after to.
C11_FiltersConjunctive ==
    Served =>
        \A i \in 1..Len(resp.items) :
            /\ WantedType # "" => resp.items[i].type = WantedType
            /\ WantedCategory.kind = "id" =>
                   /\ resp.items[i].type = "Expense"
                   /\ resp.items[i].category_id = WantedCategory.value
            /\ WantedCategory.kind = "uncategorized" =>
                   /\ resp.items[i].type = "Expense"
                   /\ resp.items[i].category_id = Null
            /\ req.from # "" =>
                   YearOfIso(resp.items[i].date) >= NewDate(req.from).year
            /\ req.to # "" =>
                   YearOfIso(resp.items[i].date) <= NewDate(req.to).year

\* the same for a from within the four digit years
FiltersHoldWithinFourDigitYears ==
    (req.from # "+010000-01-01") => C11_FiltersConjunctive

\* the tables with the rows of every other user removed
OwnIncome == SelectSeq(income, LAMBDA r : r.user_id = req.userId)
OwnExpenditure == SelectSeq(expenditure, LAMBDA r : r.user_id = req.userId)
OwnCategories == {c \in categories : c.user_id = req.userId}

\* the rows of the other users, as triples
ForeignTriples ==
    {[date |-> income[i].date, typeOrder |-> 0, id |-> income[i].id] :
        i \in {j \in 1..Len(income) : income[j].user_id # req.userId}}
    \cup
    {[date |-> expenditure[i].date, typeOrder |-> 1, id |-> expenditure[i].id] :
        i \in {j \in 1..Len(expenditure) : expenditure[j].user_id # req.userId}}

\* C12: whatever the filters and the cursor, every returned item is an income
\* or expense row of the requesting user, and the response is the one the
\* request gets when the other users hold no rows at all.
C12_UserScoped ==
    /\ Served =>
          \A i \in 1..Len(resp.items) :
              KeyOf(resp.items[i]) \in {KeyOf(r) : r \in OwnRows}
    /\ (fresh /\ ~Idle) =>
          resp = getTransactions(OwnIncome, OwnExpenditure, OwnCategories, req)

\* a page served for a cursor that is the triple of another user's row
C12_Witness ==
    /\ fresh
    /\ HasCursor
    /\ Served
    /\ resp.items # <<>>
    /\ decodeCursor(req.cursor) \in ForgedObjects
    /\ CursorTriple \in ForeignTriples

(* ====================================================================== *)
(* Properties of amounts and of the dashboard                             *)
(* ====================================================================== *)

\* an amount in thousandths that is positive and has at most two decimals
PositiveTwoDecimals(amount) == amount > 0 /\ amount % 10 = 0

\* C19: every stored income amount, expense amount and recurring default
\* amount is strictly positive and has at most two decimal places: no create
\* request stores an amount that is not.
C19_AmountsPositiveTwoDecimals ==
    /\ \A i \in 1..Len(income) : PositiveTwoDecimals(income[i].amount)
    /\ \A i \in 1..Len(expenditure) : PositiveTwoDecimals(expenditure[i].amount)
    /\ \A r \in recurring : PositiveTwoDecimals(r.default_amount)

RECURSIVE SumAt(_, _)
\* the sum of the amounts of the rows at the given positions
SumAt(rows, positions) ==
    IF positions = {} THEN 0
    ELSE LET i == CHOOSE x \in positions : TRUE
         IN  rows[i].amount + SumAt(rows, positions \ {i})

\* the user's income of the period the clock shows, in thousandths
MonthIncome(u) ==
    SumAt(income, {i \in 1..Len(income) :
                      income[i].user_id = u /\ YearOfIso(income[i].date) = now})

\* the user's expenses of the period whose category is in bucket b
MonthSpent(u, b) ==
    SumAt(expenditure,
          {i \in 1..Len(expenditure) :
              /\ expenditure[i].user_id = u
              /\ YearOfIso(expenditure[i].date) = now
              /\ \E c \in categories : /\ c.id = expenditure[i].user_category_id
                                       /\ c.budget_type = b})

\* 0.5, 0.3 and 0.2 of an amount in thousandths, in ten-thousandths
ShareOf(b, amount) ==
    CASE b = "Necessities" -> 5 * amount
      [] b = "Leisure" -> 3 * amount
      [] b = "Savings" -> 2 * amount

\* C20: the dashboard is answered 200; for each bucket, budget is the user's
\* income of the current month times 0.5, 0.3, 0.2, spent is the sum of the
\* user's expenses of the month in categories of the bucket, and remaining is
\* budget - spent, negative or not.  (budget and remaining are in
\* ten-thousandths, spent in thousandths.)
C20_DashboardBuckets ==
    ~NoDashboardYet =>
        /\ dash.status = 200
        /\ \A b \in {"Necessities", "Leisure", "Savings"} :
              /\ dash.budgets[b].budget = ShareOf(b, MonthIncome(dash.userId))
              /\ dash.budgets[b].spent = MonthSpent(dash.userId, b)
              /\ dash.budgets[b].remaining =
                     ShareOf(b, MonthIncome(dash.userId)) - 10 * MonthSpent(dash.userId, b)

\* a dashboard with an overspent bucket, the user having income of an earlier
\* period too
C20_Witness ==
    /\ dash.status = 200
    /\ dash.totalIncome > 0
    /\ \E b \in BUDGET_TYPES : dash.budgets[b].remaining < 0
    /\ \E i \in 1..Len(income) :
          income[i].user_id = dash.userId /\ YearOfIso(income[i].date) # now

(* ====================================================================== *)
(* Properties of the template import and of the category routes           *)
(* ====================================================================== *)

\* slot p holds an answered import of a document that passes validation,
\* sent by the user whose previous request was an import of the same
\* document, no write having come between
RepeatedImport(p) ==
    /\ At(p, "import", "done")
    /\ procs[p].local.repeatOf # 0
    /\ ~payloadInvalid(procs[p].local.doc)

\* the import in slot p inserted nothing and left the tables as they were
NothingInserted(p) ==
    /\ procs[p].status = 200
    /\ procs[p].local.insertedCategories = 0
    /\ procs[p].local.insertedRecurring = 0
    /\ categories = procs[p].local.before.categories
    /\ recurring = procs[p].local.before.recurring

\* C13 as stated: the second of two imports in a row of one valid document
\* by one user is answered successfully with inserted.categories = 0 and
\* inserted.recurring = 0 and changes neither categories nor templates.
C13_SecondImportInsertsNothing ==
    \A p \in DOMAIN procs : RepeatedImport(p) => NothingInserted(p)

\* C13: the same, when the first of the two imports was answered
\* successfully.
C13_SecondImportAfterSuccess ==
    \A p \in DOMAIN procs :
        (RepeatedImport(p) /\ procs[p].local.repeatOf = 200) => NothingInserted(p)

\* a second import of a document with a category and a recurring entry, by
\* the user at 50 categories and 50 templates after the first
C13_Witness ==
    \E p \in DOMAIN procs :
        /\ RepeatedImport(p)
        /\ procs[p].local.repeatOf = 200
        /\ procs[p].status = 200
        /\ procs[p].userId = 1
        /\ procs[p].local.doc.recurring # <<>>
        /\ \E c \in categories : c.user_id = 1 /\ c.name = "Rent"

\* an import that failed and was answered left categories and recurring
\* templates as they were when the request arrived, and answered an error
FailedImportRollsBack(p) ==
    (At(p, "import", "done") /\ procs[p].local.failed # 0) =>
        /\ procs[p].status \in {400, 500}
        /\ categories = procs[p].local.before.categories
        /\ recurring = procs[p].local.before.recurring

\* the rollback of a failed import when requests are handled one at a time
\* (an invariant of SpecTemplates)
SequentialImportRollsBack ==
    \A p \in DOMAIN procs : FailedImportRollsBack(p) /\ (At(p, "import", "done") => ~txn.open)

\* C14: an import that fails after its transaction has begun is answered
\* with an error, and categories and recurring templates are those of before
\* the request. Stated where nothing but the import itself can have written:
\* the only other request is an import that inserted no row.
C14_FailedImportRollsBack ==
    \A p, q \in DOMAIN procs :
        (/\ p # q
         /\ started = 2
         /\ procs[q].op = "import"
         /\ procs[q].local.insertedCategoryIds = {}
         /\ procs[q].local.insertedRecurringIds = {}) => FailedImportRollsBack(p)

\* C15: no request reads a category inserted by an import that has begun its
\* transaction and has neither committed nor rolled back.
C15_NoUncommittedRead ==
    \A p \in DOMAIN procs :
        At(p, "getCategories", "done") => procs[p].local.uncommitted = {}

\* C16: each user owns at most 50 categories and at most 50 recurring
\* templates.
C16_Caps ==
    \A u \in Users :
        /\ Cardinality({c \in categories : c.user_id = u}) <= 50
        /\ Cardinality({r \in recurring : r.user_id = u}) <= 50

\* C17: no user owns two categories whose trimmed, lowercased names are
\* equal.
C17_UniqueNames ==
    \A c, d \in categories :
        (c.user_id = d.user_id /\ c.id # d.id) =>
            ToLowerCase(Trim(c.name)) # ToLowerCase(Trim(d.name))

\* the same with only the ASCII letters folded
UniqueAsciiFoldedNames ==
    \A c, d \in categories :
        (c.user_id = d.user_id /\ c.id # d.id) => SqlLower(c.name) # SqlLower(d.name)

WellFormedCursors ==
    [sort : {"newest", "oldest"}, date : {ToISOString(1), ToISOString(2), ToISOString(MaxIsoYear + 1)},
     typeOrder : {0, 1}, id : {0 - 1, 0, 1, SeedRows + 1}]

\* the response to the request sent again with the nextCursor just returned
FollowUp ==
    getTransactions(income, expenditure, categories, [req EXCEPT !.cursor = resp.nextCursor])

UnionRows == UnionAll(income, expenditure, categories, req.userId)

\* the cursor of the request as a row of the union
CursorRow ==
    [sort_date |-> decodeCursor(req.cursor).date,
     type_order |-> decodeCursor(req.cursor).typeOrder,
     sort_id |-> decodeCursor(req.cursor).id]

\* R sorts strictly after the cursor triple C: for newest, R.date < C.date or
\* (R.date = C.date and (R.typeOrder > C.typeOrder or (R.typeOrder =
\* C.typeOrder and R.id < C.id))); for oldest the date and id comparisons are
\* '>' and the typeOrder comparison stays '>'
AfterCursor(R, C, sort) ==
    IF sort = "newest"
    THEN R.date < C.date
         \/ (R.date = C.date /\ (R.typeOrder > C.typeOrder
                                  \/ (R.typeOrder = C.typeOrder /\ R.id < C.id)))
    ELSE R.date > C.date
         \/ (R.date = C.date /\ (R.typeOrder > C.typeOrder
                                  \/ (R.typeOrder = C.typeOrder /\ R.id > C.id)))

RowTriple(row) == [date |-> row.sort_date, typeOrder |-> row.type_order, id |-> row.sort_id]

\* C23: the cursor predicate selects exactly the rows that sort strictly
\* after the cursor triple in the ORDER BY of the same direction, with the
\* typeOrder comparison '>' in both directions; the items of the page are
\* such rows.
C23_CursorPredicate ==
    (HasCursor /\ Served) =>
        /\ \A i \in 1..Len(UnionRows) :
              /\ cursorCondition(UnionRows[i], decodeCursor(req.cursor), ActiveSort)
                     = AfterCursor(RowTriple(UnionRows[i]), CursorTriple, ActiveSort)
              /\ cursorCondition(UnionRows[i], decodeCursor(req.cursor), ActiveSort)
                     = orderClause(CursorRow, UnionRows[i], ActiveSort)
        /\ \A i \in 1..Len(resp.items) :
              AfterCursor(TripleOf(resp.items[i]), CursorTriple, ActiveSort)

\* an oldest-first page after a cursor that names an expense, on a store
\* holding an income of the cursor's date: the income is not selected
C23_Witness ==
    /\ HasCursor
    /\ Served
    /\ ActiveSort = "oldest"
    /\ CursorTriple.typeOrder = 1
    /\ \E i \in 1..Len(UnionRows) :
          /\ UnionRows[i].sort_date = CursorTriple.date
          /\ UnionRows[i].type_order = 0
    /\ resp.items # <<>>

\* the page size in force: the limit parameter when it is an integer of at
\* least 1, at most 50, and 20 otherwise
EffectiveLimit == IF LimitIsInteger /\ LimitValue >= 1 THEN Min(LimitValue, MaxLimit) ELSE DefaultLimit

\* the user's rows that match the filters and sort strictly after the cursor
\* (all matching rows when no cursor is given)
Candidates ==
    {r \in OwnRows : /\ MatchesRequest(r)
                     /\ HasCursor => AfterCursor(TripleOf(r), CursorTriple, ActiveSort)}

\* from and to, when given, are dates of years up to 9999
BoundsWithinFourDigitYears ==
    /\ req.from # "" => NewDate(req.from).year <= MaxIsoYear
    /\ req.to # "" => NewDate(req.to).year <= MaxIsoYear

PageHoldsMinLimitM ==
    /\ Len(resp.items) = Min(EffectiveLimit, Cardinality(Candidates))
    /\ (resp.nextCursor # NoToken) = (Cardinality(Candidates) > EffectiveLimit)

\* C24: items holds exactly min(limit, M) entries, M the number of the user's
\* rows that match the filters and sort strictly after the cursor, and
\* nextCursor is non-null exactly when M > limit.
C24_PageSize ==
    (Served /\ fresh) => PageHoldsMinLimitM

\* the same for requests whose from and to are dates of four-digit years
PageSizeWithinFourDigitYears ==
    (Served /\ fresh /\ BoundsWithinFourDigitYears) => PageHoldsMinLimitM

\* the (limit+1)-th of the candidates in the active order
LookaheadRow ==
    CHOOSE r \in Candidates :
        Cardinality({x \in Candidates : FeedBefore(TripleOf(x), TripleOf(r), ActiveSort)})
            = EffectiveLimit

NextCursorIsLookahead ==
    /\ resp.nextCursor # NoToken
    /\ decodeCursor(resp.nextCursor) =
           [sort |-> ActiveSort, date |-> LookaheadRow.date,
            typeOrder |-> TypeOrderOf(LookaheadRow.type), id |-> LookaheadRow.id]
    /\ \A i \in 1..Len(resp.items) : KeyOf(resp.items[i]) # KeyOf(LookaheadRow)

\* C25: when more than limit rows match a page request, nextCursor decodes
\* to the request's sort with the triple of the (limit+1)-th row in the active
\* order, and that row is not among the items.
C25_NextCursorIsLookahead ==
    (Served /\ fresh /\ Cardinality(Candidates) > EffectiveLimit) => NextCursorIsLookahead

\* the same for requests whose from and to are dates of four-digit years
LookaheadWithinFourDigitYears ==
    (Served /\ fresh /\ BoundsWithinFourDigitYears /\ Cardinality(Candidates) > EffectiveLimit)
        => NextCursorIsLookahead

(* ====================================================================== *)
(* Properties of a walk: its length                                       *)
(* ====================================================================== *)

\* ceil(n / d)
CeilDiv(n, d) == (n + d - 1) \div d

\* the number of requests of the walk so far: every page before the last
\* response held pageSize items
WalkRequests == (Len(returned) - Len(resp.items)) \div resp.pageSize + 1

\* N, the number of the user's rows that match the filters
MatchingCount == Cardinality(MatchingKeys)

\* the walk began without a cursor and no write came between its fetches
InWalk == fromStart /\ stable /\ Served

\* nextCursor sorts strictly after the cursor of the request that produced it
\* and after every item of the page
NextCursorAdvances ==
    resp.nextCursor # NoToken =>
        LET next == decodeCursor(resp.nextCursor)
        IN  /\ HasCursor => AfterCursor(next, CursorTriple, ActiveSort)
            /\ \A i \in 1..Len(resp.items) :
                  FeedBefore(TripleOf(resp.items[i]), next, ActiveSort)

\* C28: a walk from the first page with no writes between fetches reaches
\* nextCursor = null after at most ceil(N / limit) requests, N the number of
\* matching rows, and each nextCursor sorts strictly after the cursor of its
\* request and after every item of its page.
C28_WalkTerminates ==
    InWalk =>
        /\ WalkRequests <= CeilDiv(MatchingCount, EffectiveLimit)
        /\ resp.nextCursor # NoToken => WalkRequests < CeilDiv(MatchingCount, EffectiveLimit)
        /\ NextCursorAdvances

\* the same with from and to in four-digit years, and one request counted
\* for a walk over no rows
WalkBoundWithinFourDigitYears ==
    (InWalk /\ BoundsWithinFourDigitYears) =>
        /\ WalkRequests <= Max(1, CeilDiv(MatchingCount, EffectiveLimit))
        /\ resp.nextCursor # NoToken => WalkRequests < CeilDiv(MatchingCount, EffectiveLimit)
        /\ NextCursorAdvances

(* ====================================================================== *)
(* Properties of category deletion and recurring templates                *)
(* ====================================================================== *)

\* every recurring template references an existing category of its user
RecurringCategoryExists ==
    \A r \in recurring :
        \E c \in categories : c.id = r.user_category_id /\ c.user_id = r.user_id

\* C29: a DELETE of a category owned by the caller that no expense
\* references is never answered 500, also when recurring templates reference
\* the category, and every recurring template references an existing
\* category of its user.
C29_DeleteNever500 ==
    /\ \A p \in DOMAIN procs :
          (At(p, "deleteCategory", "done") /\ ~procs[p].local.referenced) =>
              procs[p].status # 500
    /\ RecurringCategoryExists

(* ====================================================================== *)
(* Properties of acknowledged writes                                      *)
(* ====================================================================== *)

\* the row a create request answered 201 wrote is in its table (no request
\* of the specifications deletes a row created by a request)
AcknowledgedWriteStored(p) ==
    /\ (At(p, "postCategory", "done") /\ procs[p].status = 201) =>
           \E c \in categories : c.user_id = procs[p].userId /\ c.name = procs[p].local.name
    /\ (At(p, "postExpense", "done") /\ procs[p].status = 201) =>
           \E i \in 1..Len(expenditure) :
               /\ expenditure[i].user_id = procs[p].userId
               /\ expenditure[i].user_category_id = procs[p].local.categoryId
               /\ expenditure[i].amount = procs[p].local.amount
    /\ (At(p, "postRecurring", "done") /\ procs[p].status = 201) =>
           \E r \in recurring :
               /\ r.user_id = procs[p].userId
               /\ r.user_category_id = procs[p].local.categoryId
               /\ r.description = procs[p].local.description
               /\ r.default_amount = procs[p].local.amount

\* C27: a write acknowledged with 201 remains in the store whatever imports
\* execute concurrently: the ROLLBACK of an import removes no row written by
\* another request.
C27_AcknowledgedWritesRemain ==
    \A p \in DOMAIN procs : AcknowledgedWriteStored(p)

(* ---------------------- C30: export, then import ---------------------- *)

OwnedCategories(cats, u) == {c \in cats : c.user_id = u}
OwnedRecurring(recs, u) == {r \in recs : r.user_id = u}

CategoryEntries(cats, u) == {<<c.name, c.budget_type>> : c \in OwnedCategories(cats, u)}
RecurringEntries(recs, cats, u) ==
    {<<r.description, r.default_amount, JoinCategory(cats, r.user_category_id).name>> :
        r \in OwnedRecurring(recs, u)}

\* user b holds what user a held, entry for entry
SameTemplates(aCats, aRecs, a, b) ==
    /\ CategoryEntries(categories, b) = CategoryEntries(aCats, a)
    /\ Cardinality(OwnedCategories(categories, b)) = Cardinality(OwnedCategories(aCats, a))
    /\ RecurringEntries(recurring, categories, b) = RecurringEntries(aRecs, aCats, a)
    /\ Cardinality(OwnedRecurring(recurring, b)) = Cardinality(OwnedRecurring(aRecs, a))

\* slot p has answered user 2's import of the file exported from user 1's
\* store as it stands, into an account that held nothing
ExportImported(p) ==
    /\ At(p, "import", "done")
    /\ procs[p].userId = 2
    /\ OwnedCategories(procs[p].local.before.categories, 2) = {}
    /\ OwnedRecurring(procs[p].local.before.recurring, 2) = {}
    /\ procs[p].local.doc =
           exportPayload(categoriesInOrder(OwnedCategories(procs[p].local.before.categories, 1)),
                         procs[p].local.before.recurring,
                         procs[p].local.before.categories, 1)

\* C30: importing the export of account A into an empty account B succeeds
\* (200) and leaves B with the same categories and the same recurring
\* templates as A, one for one, whatever A has created.
C30_ExportImportRoundTrip ==
    \A p \in DOMAIN procs :
        ExportImported(p) =>
            /\ procs[p].status = 200
            /\ SameTemplates(procs[p].local.before.categories,
                             procs[p].local.before.recurring, 1, 2)

\* the import succeeds, and B holds every distinct entry of A: the names
\* that differ other than by letter case, and the templates that differ in
\* description, amount or category
ExportImportKeepsDistinctEntries ==
    \A p \in DOMAIN procs :
        ExportImported(p) =>
            /\ procs[p].status = 200
            /\ {<<ToLowerCase(e[1])>> : e \in CategoryEntries(categories, 2)} =
               {<<ToLowerCase(e[1])>> :
                   e \in CategoryEntries(procs[p].local.before.categories, 1)}
            /\ {<<e[1], e[2], ToLowerCase(e[3])>> :
                   e \in RecurringEntries(recurring, categories, 2)} =
               {<<e[1], e[2], ToLowerCase(e[3])>> :
                   e \in RecurringEntries(procs[p].local.before.recurring,
                                          procs[p].local.before.categories, 1)}

(* --------------------- C21: store failures answered ------------------- *)

\* the catch of a handler in a slot answered a store error with 500 and a
\* text that is not the text of the store's error
StoreFailureAnsweredGeneric ==
    \A p \in DOMAIN procs :
        (procs[p].pc = "done" /\ "storeError" \in DOMAIN procs[p].local) =>
            /\ procs[p].status = 500
            /\ procs[p].local.message = catchMessage(procs[p].op)
            /\ procs[p].local.message # procs[p].local.storeError

\* C21: a store failure on any endpoint, GET /api/transactions included, is
\* answered 500 with a fixed generic message that does not carry the text of
\* the store's error.
C21_StoreFailureGeneric ==
    /\ StoreFailureAnsweredGeneric
    /\ (resp.queried /\ resp.status # 200) =>
           (resp.status = 500 /\ resp.message # StoreErrorText)

(* ------------------- C26: one response per request -------------------- *)

====
